---- MODULE Spec2Model ----
(***************************************************************************)
(* Flow controller of the Sequence React Native SDK (FlowRenderer.tsx):    *)
(* currentIndex, collectedData and validationErrors, the handlers          *)
(* handleAction and handleDataChange, validateCurrentScreen and            *)
(* navigateTo, and the calls they make to the telemetry sink and to the    *)
(* onComplete / onCustomAction callbacks.                                  *)
(*                                                                         *)
(* Handlers run to completion on the UI thread and React commits the       *)
(* state they set before the next user event is dispatched, so every       *)
(* handler is one atomic action that reads the committed state.            *)
(***************************************************************************)
EXTENDS Integers, Sequences, FiniteSets, TLC

VARIABLES
  screens,           \* the screens prop: the flow being rendered
  currentIndex,      \* useState(initialScreenIndex)
  collectedData,     \* useState<CollectedData>({})
  validationErrors,  \* useState<Set<string>>(new Set())
  emitted,           \* outward calls made by the last handler, in order
  completeCount,     \* number of onComplete invocations so far
  lastAction,        \* the handler invocation that produced this state
  experimentInfo,    \* the experimentInfo prop (identity of the object passed)
  startedCount,      \* number of onboarding_started signals so far
  fnInput,           \* arguments of the last evaluation of a pure function
  fnOutput,          \* its result
  client,            \* SequenceClient: config set, completion flag, pendingEvents
  storage,           \* AsyncStorage keys written by the client
  inFlight,          \* flushEvents calls awaiting the server's answer
  accepted,          \* per event, the number of batches the server accepted it in
  provider,          \* SequenceProvider useState values
  context,           \* the memoised context value handed to consumers
  awaiting,          \* provider operations that have not returned yet
  animValues,        \* slideAnim, slideYAnim, fadeAnim, scaleAnim
  animRunning,       \* per animated value, the transition animating it (0: none)
  animTasks,         \* callbacks handed to InteractionManager, not run yet
  animStarted,       \* number of animateTransition calls so far
  checklist,         \* content of the checklist block on screen
  presses,           \* handleItemPress calls waiting on the haptics promise
  autoTimers         \* auto-advance timeouts not fired yet

vars == <<screens, currentIndex, collectedData, validationErrors,
          emitted, completeCount, lastAction,
          experimentInfo, startedCount, fnInput, fnOutput,
          client, storage, inFlight, accepted, provider, context, awaiting,
          animValues, animRunning, animTasks, animStarted,
          checklist, presses, autoTimers>>

\* the event client and the provider around it
sdkVars == <<client, storage, inFlight, accepted, provider, context, awaiting>>

\* the transition animator
animVars == <<animValues, animRunning, animTasks, animStarted>>

\* the checklist block
checklistVars == <<checklist, presses, autoTimers>>

\* what handleAction and handleDataChange never touch
otherVars == <<experimentInfo, startedCount, fnInput, fnOutput,
               sdkVars, animVars, checklistVars>>

\* ---------------------------------------------------------------------
\* Bounds
\* ---------------------------------------------------------------------

\* onComplete invocations counted before the completing actions are cut off
MaxCompletions == 2

\* onboarding_started signals counted before prop changes are cut off
MaxStarts == 3

\* ---------------------------------------------------------------------
\* Values of CollectedData: string | string[] | number, or absent
\* ---------------------------------------------------------------------

\* a string is a sequence of one-character strings
Str(s) == [kind |-> "string", str |-> s, arr |-> <<>>, num |-> 0]

Arr(a) == [kind |-> "array", str |-> <<>>, arr |-> a, num |-> 0]

Num(n) == [kind |-> "number", str |-> <<>>, arr |-> <<>>, num |-> n]

\* collectedData[fieldName] of a key that was never written
UNDEF == [kind |-> "undefined", str |-> <<>>, arr |-> <<>>, num |-> 0]

EmailText == <<"a", "@", "b", ".", "c", "o", "m">>

\* the values a data change may carry
Values ==
  { Str(<<>>), Str(<<" ">>), Str(EmailText),
    Arr(<<>>), Arr(<<"sports">>), Arr(<<"sports", "music">>),
    Num(0), Num(5) }

FieldNames == {"email", "interests"}

\* {} : no key present
EmptyData == [f \in FieldNames |-> UNDEF]

\* ---------------------------------------------------------------------
\* Flows
\* ---------------------------------------------------------------------

Block(type, required, minSelections, fieldName) ==
  [type |-> type, required |-> required,
   minSelections |-> minSelections, fieldName |-> fieldName]

\* hasBlocks = FALSE is a screen whose content has no blocks array
ScreenRec(id, hasBlocks, blocks) ==
  [id |-> id, hasBlocks |-> hasBlocks, blocks |-> blocks]

\* required input on the first screen, checklist needing two selections on
\* the second, a legacy screen without blocks last
FlowA ==
  << ScreenRec("welcome", TRUE,
        << Block("text", FALSE, 0, ""),
           Block("input", TRUE, 0, "email") >>),
     ScreenRec("interests", TRUE,
        << Block("checklist", FALSE, 2, "interests"),
           Block("input", FALSE, 0, "email") >>),
     ScreenRec("done", FALSE, <<>>) >>

\* unconstrained first screen, legacy screen in the middle, two constrained
\* blocks and a required input without a field name on the last screen
FlowB ==
  << ScreenRec("intro", TRUE,
        << Block("text", FALSE, 0, ""),
           Block("checklist", FALSE, 0, "interests") >>),
     ScreenRec("legacy", FALSE, <<>>),
     ScreenRec("profile", TRUE,
        << Block("input", TRUE, 0, "email"),
           Block("checklist", FALSE, 1, "interests"),
           Block("input", TRUE, 0, "") >>) >>

Flows == {FlowA, FlowB}

ScreenIdsOf(flow) == {flow[i].id : i \in 1..Len(flow)}

\* an id no screen of either flow carries
UnknownScreenId == "missing"

ActionScreenIds == ScreenIdsOf(FlowA) \cup ScreenIdsOf(FlowB) \cup {UnknownScreenId}

CustomIdentifiers == {"skip", "upgrade"}

\* screens[currentIndex] with the 0-based index of the code
ScreenAt(i) == screens[i + 1]

currentScreen == ScreenAt(currentIndex)

\* ---------------------------------------------------------------------
\* Outward calls
\* ---------------------------------------------------------------------

Signal(sig, arg, data) == [sig |-> sig, arg |-> arg, data |-> data]

Action(type, arg, value) == [type |-> type, arg |-> arg, value |-> value]

\* ---------------------------------------------------------------------
\* validateCurrentScreen
\* ---------------------------------------------------------------------

Whitespace == {" "}

RECURSIVE TrimStart(_)
TrimStart(s) ==
  IF s = <<>> THEN s
  ELSE IF Head(s) \in Whitespace THEN TrimStart(Tail(s)) ELSE s

RECURSIVE TrimEnd(_)
TrimEnd(s) ==
  IF s = <<>> THEN s
  ELSE IF s[Len(s)] \in Whitespace THEN TrimEnd(SubSeq(s, 1, Len(s) - 1)) ELSE s

\* String.prototype.trim
Trim(s) == TrimEnd(TrimStart(s))

\* isEmpty of a required input's value
IsEmpty(value) ==
  \/ value.kind = "undefined"
  \/ value.kind = "string" /\ Trim(value.str) = <<>>
  \/ value.kind = "array" /\ Len(value.arr) = 0

\* JavaScript truthiness of a collected value
Truthy(value) ==
  CASE value.kind = "undefined" -> FALSE
    [] value.kind = "string" -> value.str # <<>>
    [] value.kind = "number" -> value.num # 0
    [] value.kind = "array" -> TRUE

\* Array.isArray(value) ? value.length : value ? 1 : 0
\* variant: every scalar that is present counts as one selection
SelectionCount_ScalarOne(value) ==
  IF value.kind = "array" THEN Len(value.arr)
  ELSE IF value.kind = "undefined" THEN 0 ELSE 1

SelectionCount(value) ==
  IF value.kind = "array" THEN Len(value.arr)
  ELSE IF Truthy(value) THEN 1 ELSE 0

InputFails(block, data) ==
  /\ block.type = "input"
  /\ block.required
  /\ block.fieldName # ""
  /\ IsEmpty(data[block.fieldName])

ChecklistFails(block, data) ==
  /\ block.type = "checklist"
  /\ block.minSelections # 0
  /\ block.minSelections > 0
  /\ block.fieldName # ""
  /\ SelectionCount(data[block.fieldName]) < block.minSelections

\* the errors array of validateCurrentScreen, as a set
ValidationFailures(screen, data) ==
  IF ~screen.hasBlocks THEN {}
  ELSE { screen.blocks[i].fieldName : i \in
           { j \in 1..Len(screen.blocks) :
               InputFails(screen.blocks[j], data) \/ ChecklistFails(screen.blocks[j], data) } }

\* return value of validateCurrentScreen
ValidatePasses(screen, data) == ValidationFailures(screen, data) = {}

\* variant: the new errors are merged into the previous set
ValidatedErrors_Merged(screen, data, prevErrors) ==
  IF ~screen.hasBlocks THEN prevErrors
  ELSE prevErrors \cup ValidationFailures(screen, data)

\* validationErrors after validateCurrentScreen: untouched on a screen without
\* blocks, otherwise replaced by the new set (empty when validation passes)
ValidatedErrors(screen, data, prevErrors) ==
  IF ~screen.hasBlocks THEN prevErrors ELSE ValidationFailures(screen, data)

\* ---------------------------------------------------------------------
\* Initial state: mounted on an in-range screen, nothing collected
\* ---------------------------------------------------------------------

\* no pure function evaluated yet
NoCall == [fn |-> "none"]

\* SequenceClient field initialisers, empty storage, SequenceProvider useState
\* initial values and the context value of the first render
InitSdk ==
  /\ client = [configured |-> FALSE, isOnboardingCompleted |-> FALSE,
               pendingEvents |-> <<>>, timer |-> FALSE,
               nextEvent |-> 1, configureCalls |-> 0,
               timerFlushes |-> 0, flushFailures |-> 0]
  /\ storage = [completed |-> FALSE, hasPending |-> FALSE, pendingEvents |-> <<>>,
                hasCached |-> FALSE, cachedScreens |-> 0]
  /\ inFlight = <<>>
  /\ accepted = <<>>
  /\ provider = [isConfigured |-> FALSE, isLoading |-> FALSE, hasError |-> FALSE,
                 hasConfig |-> FALSE, screens |-> 0]
  /\ context = [isOnboardingCompleted |-> FALSE, screens |-> 0]
  /\ awaiting = {}

\* useRef(new Animated.Value(..)): every value at rest, nothing animating
InitAnim ==
  /\ animValues = [slide |-> "0", slideY |-> "0", fade |-> "1", scale |-> "1"]
  /\ animRunning = [slide |-> 0, slideY |-> 0, fade |-> 0, scale |-> 0]
  /\ animTasks = <<>>
  /\ animStarted = 0

\* no checklist on screen, no press and no timeout pending
InitChecklist ==
  /\ checklist = [present |-> FALSE]
  /\ presses = <<>>
  /\ autoTimers = <<>>

\* objects the parent may pass as experimentInfo; "null" is no experiment
ExperimentInfos == {"null", "exp1", "exp2"}

Init ==
  /\ screens \in Flows
  /\ currentIndex \in 0..(Len(screens) - 1)
  /\ collectedData = EmptyData
  /\ validationErrors = {}
  /\ emitted = << Signal("onboarding_started", "", EmptyData),
                  Signal("screen_viewed", ScreenAt(currentIndex).id, EmptyData) >>
  /\ completeCount = 0
  /\ lastAction = Action("mount", "", UNDEF)
  /\ experimentInfo \in ExperimentInfos
  /\ startedCount = 1
  /\ fnInput = NoCall
  /\ fnOutput = NoCall
  /\ InitSdk
  /\ InitAnim
  /\ InitChecklist

\* ---------------------------------------------------------------------
\* navigateTo
\* ---------------------------------------------------------------------

\* variant: the effect runs after every commit of navigateTo
ViewedEffect_EveryCommit(fromIndex, toIndex) ==
  << Signal("screen_viewed", ScreenAt(toIndex).id, EmptyData) >>

\* the screen_viewed effect runs after a commit that changed currentScreen.id
ViewedEffect(fromIndex, toIndex) ==
  IF ScreenAt(toIndex).id # ScreenAt(fromIndex).id
  THEN << Signal("screen_viewed", ScreenAt(toIndex).id, EmptyData) >>
  ELSE <<>>

\* variant: screen_completed is tracked before the bounds check
navigateTo_TrackFirst(targetIndex) ==
  IF targetIndex < 0 \/ targetIndex >= Len(screens)
  THEN /\ currentIndex' = currentIndex
       /\ emitted' = << Signal("screen_completed", currentScreen.id, EmptyData) >>
  ELSE /\ currentIndex' = targetIndex
       /\ emitted' = << Signal("screen_completed", currentScreen.id, EmptyData) >>
                       \o ViewedEffect(currentIndex, targetIndex)

navigateTo(targetIndex) ==
  IF targetIndex < 0 \/ targetIndex >= Len(screens)
  THEN /\ currentIndex' = currentIndex
       /\ emitted' = <<>>
  ELSE /\ currentIndex' = targetIndex
       /\ emitted' = << Signal("screen_completed", currentScreen.id, EmptyData) >>
                       \o ViewedEffect(currentIndex, targetIndex)

\* ---------------------------------------------------------------------
\* handleAction
\* ---------------------------------------------------------------------

\* Sequence.trackOnboardingCompleted(collectedData); onComplete?.(collectedData)
Complete ==
  /\ completeCount < MaxCompletions
  /\ completeCount' = completeCount + 1
  /\ emitted' = << Signal("onboarding_completed", "", collectedData),
                   Signal("onComplete", "", collectedData) >>
  /\ currentIndex' = currentIndex

\* variant: an unknown id resolves to the first screen
FindIndex_DefaultFirst(screenId) ==
  IF \E i \in 1..Len(screens) : screens[i].id = screenId
  THEN (CHOOSE i \in 1..Len(screens) :
          /\ screens[i].id = screenId
          /\ \A j \in 1..(i - 1) : screens[j].id # screenId) - 1
  ELSE 0

\* screens.findIndex((s) => s.id === screenId), -1 when absent
FindIndex(screenId) ==
  IF \E i \in 1..Len(screens) : screens[i].id = screenId
  THEN (CHOOSE i \in 1..Len(screens) :
          /\ screens[i].id = screenId
          /\ \A j \in 1..(i - 1) : screens[j].id # screenId) - 1
  ELSE -1

\* the validation gate: validateCurrentScreen failed, handleAction returns
Blocked ==
  /\ validationErrors' = ValidatedErrors(currentScreen, collectedData, validationErrors)
  /\ currentIndex' = currentIndex
  /\ emitted' = <<>>
  /\ completeCount' = completeCount

\* variant: the last screen is not recognised, next always navigates
HandleNext_NoCompletion ==
  /\ lastAction' = Action("next", "", UNDEF)
  /\ UNCHANGED otherVars
  /\ UNCHANGED <<screens, collectedData>>
  /\ IF ~ValidatePasses(currentScreen, collectedData)
     THEN Blocked
     ELSE /\ validationErrors' = ValidatedErrors(currentScreen, collectedData, validationErrors)
          /\ navigateTo(currentIndex + 1)
          /\ completeCount' = completeCount

HandleNext ==
  /\ lastAction' = Action("next", "", UNDEF)
  /\ UNCHANGED otherVars
  /\ UNCHANGED <<screens, collectedData>>
  /\ IF ~ValidatePasses(currentScreen, collectedData)
     THEN Blocked
     ELSE /\ validationErrors' = ValidatedErrors(currentScreen, collectedData, validationErrors)
          /\ IF currentIndex < Len(screens) - 1
             THEN navigateTo(currentIndex + 1) /\ completeCount' = completeCount
             ELSE Complete

\* variant: previous goes through the validation gate
HandlePrevious_Validated ==
  /\ lastAction' = Action("previous", "", UNDEF)
  /\ UNCHANGED otherVars
  /\ UNCHANGED <<screens, collectedData>>
  /\ IF ~ValidatePasses(currentScreen, collectedData)
     THEN Blocked
     ELSE /\ validationErrors' = ValidatedErrors(currentScreen, collectedData, validationErrors)
          /\ completeCount' = completeCount
          /\ IF currentIndex > 0
             THEN navigateTo(currentIndex - 1)
             ELSE currentIndex' = currentIndex /\ emitted' = <<>>

HandlePrevious ==
  /\ lastAction' = Action("previous", "", UNDEF)
  /\ UNCHANGED otherVars
  /\ UNCHANGED <<screens, collectedData, validationErrors, completeCount>>
  /\ IF currentIndex > 0
     THEN navigateTo(currentIndex - 1)
     ELSE currentIndex' = currentIndex /\ emitted' = <<>>

HandleScreen(screenId) ==
  /\ lastAction' = Action("screen", screenId, UNDEF)
  /\ UNCHANGED otherVars
  /\ UNCHANGED <<screens, collectedData>>
  /\ IF ~ValidatePasses(currentScreen, collectedData)
     THEN Blocked
     ELSE /\ validationErrors' = ValidatedErrors(currentScreen, collectedData, validationErrors)
          /\ completeCount' = completeCount
          /\ IF FindIndex(screenId) # -1
             THEN navigateTo(FindIndex(screenId))
             ELSE currentIndex' = currentIndex /\ emitted' = <<>>

\* variant: the collected data is reset once the flow has completed
HandleComplete_ResetsData ==
  /\ lastAction' = Action("complete", "", UNDEF)
  /\ UNCHANGED otherVars
  /\ UNCHANGED screens
  /\ IF ~ValidatePasses(currentScreen, collectedData)
     THEN Blocked /\ collectedData' = collectedData
     ELSE /\ validationErrors' = ValidatedErrors(currentScreen, collectedData, validationErrors)
          /\ Complete
          /\ collectedData' = EmptyData

\* variant: complete only completes on the last screen
HandleComplete_LastOnly ==
  /\ lastAction' = Action("complete", "", UNDEF)
  /\ UNCHANGED otherVars
  /\ UNCHANGED <<screens, collectedData>>
  /\ IF ~ValidatePasses(currentScreen, collectedData)
     THEN Blocked
     ELSE /\ validationErrors' = ValidatedErrors(currentScreen, collectedData, validationErrors)
          /\ IF currentIndex = Len(screens) - 1
             THEN Complete
             ELSE /\ currentIndex' = currentIndex
                  /\ emitted' = <<>>
                  /\ completeCount' = completeCount

HandleComplete ==
  /\ lastAction' = Action("complete", "", UNDEF)
  /\ UNCHANGED otherVars
  /\ UNCHANGED <<screens, collectedData>>
  /\ IF ~ValidatePasses(currentScreen, collectedData)
     THEN Blocked
     ELSE /\ validationErrors' = ValidatedErrors(currentScreen, collectedData, validationErrors)
          /\ Complete

\* variant: custom goes through the validation gate
HandleCustom_Validated(identifier) ==
  /\ lastAction' = Action("custom", identifier, UNDEF)
  /\ UNCHANGED otherVars
  /\ UNCHANGED <<screens, collectedData>>
  /\ IF ~ValidatePasses(currentScreen, collectedData)
     THEN Blocked
     ELSE /\ validationErrors' = ValidatedErrors(currentScreen, collectedData, validationErrors)
          /\ emitted' = << Signal("onCustomAction", identifier, EmptyData) >>
          /\ UNCHANGED <<currentIndex, completeCount>>

HandleCustom(identifier) ==
  /\ lastAction' = Action("custom", identifier, UNDEF)
  /\ UNCHANGED otherVars
  /\ emitted' = << Signal("onCustomAction", identifier, EmptyData) >>
  /\ UNCHANGED <<screens, currentIndex, collectedData, validationErrors, completeCount>>

\* ---------------------------------------------------------------------
\* handleDataChange
\* ---------------------------------------------------------------------

\* variant: a data change clears every validation error
handleDataChange_ClearsAll(fieldName, value) ==
  /\ lastAction' = Action("dataChange", fieldName, value)
  /\ UNCHANGED otherVars
  /\ collectedData' = [collectedData EXCEPT ![fieldName] = value]
  /\ validationErrors' = {}
  /\ emitted' = <<>>
  /\ UNCHANGED <<screens, currentIndex, completeCount>>

handleDataChange(fieldName, value) ==
  /\ lastAction' = Action("dataChange", fieldName, value)
  /\ UNCHANGED otherVars
  /\ collectedData' = [collectedData EXCEPT ![fieldName] = value]
  /\ validationErrors' = validationErrors \ {fieldName}
  /\ emitted' = <<>>
  /\ UNCHANGED <<screens, currentIndex, completeCount>>

DataChange == \E f \in FieldNames : \E v \in Values : handleDataChange(f, v)

ScreenAction == \E id \in ActionScreenIds : HandleScreen(id)

CustomAction == \E identifier \in CustomIdentifiers : HandleCustom(identifier)

Next ==
  \/ HandleNext
  \/ HandlePrevious
  \/ ScreenAction
  \/ HandleComplete
  \/ CustomAction
  \/ DataChange

Spec == Init /\ [][Next]_vars

\* ---------------------------------------------------------------------
\* navigateTo applied to arbitrary targets
\* ---------------------------------------------------------------------

\* how far beyond either end of the screen array a direct target may lie
NavOvershoot == 1

NavTargets == (0 - NavOvershoot)..(Len(screens) - 1 + NavOvershoot)

NavigateDirect ==
  \E t \in NavTargets :
    /\ lastAction' = Action("navigateTo", "", Num(t))
    /\ UNCHANGED otherVars
    /\ navigateTo(t)
    /\ UNCHANGED <<screens, collectedData, validationErrors, completeCount>>

NextNav ==
  \/ HandleNext
  \/ HandlePrevious
  \/ ScreenAction
  \/ HandleComplete
  \/ CustomAction
  \/ DataChange
  \/ NavigateDirect

SpecNav == Init /\ [][NextNav]_vars

\* ---------------------------------------------------------------------
\* The onboarding_started effect: useEffect(..., [experimentInfo])
\* ---------------------------------------------------------------------

\* the parent re-renders FlowRenderer with the object e as experimentInfo;
\* the effect runs again when e is not the object of the previous render
ExperimentInfoProp(e) ==
  /\ lastAction' = Action("props", e, UNDEF)
  /\ experimentInfo' = e
  /\ IF e # experimentInfo
     THEN /\ startedCount < MaxStarts
          /\ startedCount' = startedCount + 1
          /\ emitted' = << Signal("onboarding_started", "", EmptyData) >>
     ELSE /\ startedCount' = startedCount
          /\ emitted' = <<>>
  /\ UNCHANGED <<screens, currentIndex, collectedData, validationErrors,
                 completeCount, fnInput, fnOutput,
                 sdkVars, animVars, checklistVars>>

PropsChange == \E e \in ExperimentInfos : ExperimentInfoProp(e)

NextProps ==
  \/ HandleNext
  \/ HandlePrevious
  \/ ScreenAction
  \/ HandleComplete
  \/ CustomAction
  \/ DataChange
  \/ PropsChange

SpecProps == Init /\ [][NextProps]_vars

\* ---------------------------------------------------------------------
\* Pure functions of the renderer, evaluated on enumerated arguments
\* ---------------------------------------------------------------------

\* the flow controller as mounted, left alone while functions are evaluated
InitController ==
  /\ screens = FlowA
  /\ currentIndex = 0
  /\ collectedData = EmptyData
  /\ validationErrors = {}
  /\ emitted = << Signal("onboarding_started", "", EmptyData),
                  Signal("screen_viewed", "welcome", EmptyData) >>
  /\ completeCount = 0
  /\ lastAction = Action("mount", "", UNDEF)
  /\ experimentInfo = "null"
  /\ startedCount = 1
  /\ InitSdk
  /\ InitAnim
  /\ InitChecklist

controllerVars == <<screens, currentIndex, collectedData, validationErrors,
                    emitted, completeCount, lastAction, experimentInfo, startedCount,
                    sdkVars, animVars, checklistVars>>

\* ---------------------------------------------------------------------
\* getTransition
\* ---------------------------------------------------------------------

\* entries of the override table a flow may carry at most
MaxOverrides == 2

\* a screen as getTransition reads it; transition "" is an absent transition
TScreen(id, transition) == [id |-> id, transition |-> transition]

Override(fromScreenId, toScreenId, transition) ==
  [fromScreenId |-> fromScreenId, toScreenId |-> toScreenId, transition |-> transition]

TransitionFlows ==
  { << TScreen("A", a), TScreen("B", b), TScreen("C", "none") >> :
      a \in {"", "fade", "slide-left"}, b \in {"", "slide-up"} }

OverrideEntries ==
  { Override("A", "B", "scale"), Override("A", "B", "none"),
    Override("B", "A", "fade-slide-right"), Override("A", "C", "slide-down"),
    Override("X", "B", "slide-right") }

\* the transitions prop; an absent prop behaves as the empty table
OverrideTables ==
  UNION { [1..n -> OverrideEntries] : n \in 0..MaxOverrides }

\* variant: an entry matches on its target screen alone
getTransition_TargetOnly(flow, transitions, fromIndex, toIndex) ==
  LET fromScreen == flow[fromIndex + 1]
      toScreen == flow[toIndex + 1]
      matching == { k \in 1..Len(transitions) : transitions[k].toScreenId = toScreen.id }
  IN  IF matching # {}
      THEN transitions[CHOOSE k \in matching : \A m \in matching : k <= m].transition
      ELSE IF fromScreen.transition # "" THEN fromScreen.transition ELSE "fade"

\* transitions.find(...) returns the first matching entry
getTransition(flow, transitions, fromIndex, toIndex) ==
  LET fromScreen == flow[fromIndex + 1]
      toScreen == flow[toIndex + 1]
      matching == { k \in 1..Len(transitions) :
                      /\ transitions[k].fromScreenId = fromScreen.id
                      /\ transitions[k].toScreenId = toScreen.id }
  IN  IF matching # {}
      THEN transitions[CHOOSE k \in matching : \A m \in matching : k <= m].transition
      ELSE IF fromScreen.transition # "" THEN fromScreen.transition ELSE "fade"

TransitionCalls ==
  { [fn |-> "getTransition", flow |-> flow, transitions |-> table,
     fromIndex |-> fromIndex, toIndex |-> toIndex] :
      flow \in TransitionFlows, table \in OverrideTables,
      fromIndex \in 0..2, toIndex \in 0..2 }

InitTransition ==
  /\ InitController
  /\ fnInput \in TransitionCalls
  /\ fnOutput = NoCall

EvalGetTransition ==
  /\ fnOutput = NoCall
  /\ fnOutput' = [fn |-> "getTransition",
                  transition |-> getTransition(fnInput.flow, fnInput.transitions,
                                               fnInput.fromIndex, fnInput.toIndex)]
  /\ UNCHANGED <<controllerVars, fnInput>>

NextTransition == EvalGetTransition

SpecTransition == InitTransition /\ [][NextTransition]_vars

\* ---------------------------------------------------------------------
\* Layout: scale factors, legacy migration, max widths, block placement
\* ---------------------------------------------------------------------

\* blocks on a screen at most
MaxBlocks == 2

EDITOR_CANVAS_WIDTH == 393

EDITOR_CANVAS_HEIGHT == 852

OLD_CANVAS_WIDTH == 320

OLD_CANVAS_HEIGHT == 693

\* textMaxWidth in design units
TEXT_MAX_WIDTH == 280

\* horizontal inset taken off the canvas for full-width blocks
FULL_WIDTH_INSET == 48

\* default left edge of a block without a position
DEFAULT_X == 24

\* default top of the first block without a position, and the pitch
DEFAULT_Y == 150

DEFAULT_PITCH == 70

\* half the default icon width
ICON_HALF_WIDTH == 40

\* numbers are exact fractions n/d with d > 0
Rat(n, d) == [n |-> n, d |-> d]

RInt(k) == Rat(k, 1)

RMul(a, b) == Rat(a.n * b.n, a.d * b.d)

RSub(a, b) == Rat(a.n * b.d - b.n * a.d, a.d * b.d)

REq(a, b) == a.n * b.d = b.n * a.d

RLe(a, b) == a.n * b.d <= b.n * a.d

\* Math.round: the integer nearest to a, halves rounded up
MathRound(a) == (2 * a.n + a.d) \div (2 * a.d)

Point(x, y) == [x |-> x, y |-> y]

\* Dimensions.get('window')
Viewport(w, h) == [w |-> w, h |-> h]

Viewports == { Viewport(393, 852), Viewport(786, 1704), Viewport(430, 932) }

uniformScale(vp) == Rat(vp.w, EDITOR_CANVAS_WIDTH)

\* variant: the height-based scale is replaced by the width-based one
yScale_WidthBased(vp) == Rat(vp.w, EDITOR_CANVAS_WIDTH)

yScale(vp) == Rat(vp.h, EDITOR_CANVAS_HEIGHT)

textMaxWidth(vp) == RMul(RInt(TEXT_MAX_WIDTH), uniformScale(vp))

fullWidthMaxWidth(vp) ==
  RMul(RInt(EDITOR_CANVAS_WIDTH - FULL_WIDTH_INSET), uniformScale(vp))

\* a content block as the layout reads it: fullWidth is "true", "false" or
\* "absent"; widthKind is "number", "string" ('auto' | 'full') or "absent"
LBlock(type, hasPosition, x, y, order, visible, pinToBottom, fullWidth, widthKind, width) ==
  [id |-> 0, type |-> type, hasPosition |-> hasPosition, x |-> x, y |-> y,
   order |-> order, visible |-> visible, pinToBottom |-> pinToBottom,
   fullWidth |-> fullWidth, widthKind |-> widthKind, width |-> width]

BlockPool ==
  { LBlock("text", TRUE, 24, 150, 0, TRUE, FALSE, "absent", "absent", 0),
    LBlock("text", TRUE, 320, 693, 1, TRUE, FALSE, "absent", "string", 0),
    LBlock("image", TRUE, 321, 150, 0, TRUE, FALSE, "absent", "absent", 0),
    LBlock("text", TRUE, 24, 694, 1, TRUE, FALSE, "absent", "number", 0),
    LBlock("text", FALSE, 0, 0, 0, TRUE, FALSE, "absent", "absent", 0),
    LBlock("icon", FALSE, 0, 0, 1, TRUE, FALSE, "absent", "absent", 0),
    LBlock("button", FALSE, 0, 0, 1, TRUE, FALSE, "true", "absent", 0),
    LBlock("button", TRUE, 100, 600, 1, TRUE, FALSE, "false", "absent", 0),
    LBlock("button", FALSE, 0, 0, 0, TRUE, FALSE, "absent", "number", 200),
    LBlock("input", FALSE, 0, 0, 0, TRUE, FALSE, "absent", "number", 200),
    LBlock("checklist", TRUE, 24, 300, 1, TRUE, FALSE, "absent", "absent", 0),
    LBlock("text", TRUE, 350, 700, 0, FALSE, FALSE, "absent", "absent", 0),
    LBlock("button", FALSE, 0, 0, 1, TRUE, TRUE, "absent", "absent", 0),
    LBlock("slider", TRUE, 30, 400, 0, TRUE, TRUE, "absent", "absent", 0) }

\* block.id: the place of the block in content.blocks
WithIds(blocks) == [i \in 1..Len(blocks) |-> [blocks[i] EXCEPT !.id = i]]

ScreenLayouts ==
  { WithIds(blocks) : blocks \in UNION { [1..n -> BlockPool] : n \in 1..MaxBlocks } }

\* b placed after every block whose order is not greater: a stable sort step
RECURSIVE InsertByOrder(_, _)
InsertByOrder(sorted, b) ==
  IF sorted = <<>> THEN << b >>
  ELSE IF b.order < Head(sorted).order
       THEN << b >> \o sorted
       ELSE << Head(sorted) >> \o InsertByOrder(Tail(sorted), b)

\* [...blocks].sort((a, b) => a.order - b.order)
RECURSIVE SortByOrder(_)
SortByOrder(blocks) ==
  IF blocks = <<>> THEN <<>>
  ELSE InsertByOrder(SortByOrder(SubSeq(blocks, 1, Len(blocks) - 1)), blocks[Len(blocks)])

IsVisible(b) == b.visible

IsPinned(b) == b.pinToBottom

IsRegular(b) == ~b.pinToBottom

HasPosition(b) == b.hasPosition

sortedBlocks(blocks) == SortByOrder(SelectSeq(blocks, IsVisible))

regularBlocks(blocks) == SelectSeq(sortedBlocks(blocks), IsRegular)

pinnedBlocks(blocks) == SelectSeq(sortedBlocks(blocks), IsPinned)

\* variant: one positioned block within the old canvas is enough
needsMigration_Some(blocks) ==
  LET blocksWithPositions == SelectSeq(blocks, HasPosition)
  IN  /\ Len(blocksWithPositions) > 0
      /\ \E i \in 1..Len(blocksWithPositions) :
           /\ blocksWithPositions[i].x <= OLD_CANVAS_WIDTH
           /\ blocksWithPositions[i].y <= OLD_CANVAS_HEIGHT

needsMigration(blocks) ==
  LET blocksWithPositions == SelectSeq(blocks, HasPosition)
  IN  /\ Len(blocksWithPositions) > 0
      /\ \A i \in 1..Len(blocksWithPositions) :
           /\ blocksWithPositions[i].x <= OLD_CANVAS_WIDTH
           /\ blocksWithPositions[i].y <= OLD_CANVAS_HEIGHT

migratePosition(migrate, pos) ==
  IF ~migrate THEN pos
  ELSE Point(RInt(MathRound(RMul(pos.x, Rat(EDITOR_CANVAS_WIDTH, OLD_CANVAS_WIDTH)))),
             RInt(MathRound(RMul(pos.y, Rat(EDITOR_CANVAS_HEIGHT, OLD_CANVAS_HEIGHT)))))

\* block.styling?.width && typeof block.styling.width === 'number'
HasNumericWidth(block) == block.widthKind = "number" /\ block.width # 0

\* variant: buttons are sized by their fullWidth flag
getBlockMaxWidth_ButtonFlag(block, vp) ==
  IF block.type \in {"checklist", "input", "progress", "divider", "slider"}
  THEN fullWidthMaxWidth(vp)
  ELSE IF block.type = "button" /\ block.fullWidth # "false"
  THEN fullWidthMaxWidth(vp)
  ELSE IF HasNumericWidth(block)
  THEN RMul(RInt(block.width), uniformScale(vp))
  ELSE textMaxWidth(vp)

getBlockMaxWidth(block, vp) ==
  IF block.type \in {"checklist", "input", "progress", "divider", "slider"}
  THEN fullWidthMaxWidth(vp)
  ELSE IF HasNumericWidth(block)
  THEN RMul(RInt(block.width), uniformScale(vp))
  ELSE textMaxWidth(vp)

\* 1-based place of the block with this id in a list, 0 when absent
PlaceOf(list, id) ==
  IF \E i \in 1..Len(list) : list[i].id = id
  THEN CHOOSE i \in 1..Len(list) : list[i].id = id
  ELSE 0

\* block.position || { x: icon ? canvas/2 - 40 : centerX, y: 150 + index * 70 }
RegularPosition(block, index) ==
  IF block.hasPosition THEN Point(RInt(block.x), RInt(block.y))
  ELSE Point(IF block.type = "icon"
             THEN RSub(Rat(EDITOR_CANVAS_WIDTH, 2), RInt(ICON_HALF_WIDTH))
             ELSE RInt(DEFAULT_X),
             RInt(DEFAULT_Y + index * DEFAULT_PITCH))

\* block.position || { x: centerX, y: 0 }
PinnedPosition(block) ==
  IF block.hasPosition THEN Point(RInt(block.x), RInt(block.y))
  ELSE Point(RInt(DEFAULT_X), RInt(0))

\* what renderScreenContent computes for the block with this id: rendered is
\* FALSE for an invisible block; top is meaningful for regular blocks only
RenderBlock(blocks, vp, id) ==
  LET regular == regularBlocks(blocks)
      pinned == pinnedBlocks(blocks)
      migrate == needsMigration(blocks)
      r == PlaceOf(regular, id)
      q == PlaceOf(pinned, id)
      block == blocks[id]
      pos == IF r > 0
             THEN migratePosition(migrate, RegularPosition(block, r - 1))
             ELSE migratePosition(migrate, PinnedPosition(block))
  IN  [fn |-> "renderBlock",
       rendered |-> (r > 0 \/ q > 0),
       pinned |-> (q > 0),
       index |-> (IF r > 0 THEN r - 1 ELSE q - 1),
       needsMigration |-> migrate,
       pos |-> pos,
       left |-> RMul(pos.x, uniformScale(vp)),
       top |-> RMul(pos.y, yScale(vp)),
       maxWidth |-> getBlockMaxWidth(block, vp)]

LayoutCalls ==
  { [fn |-> "renderBlock", blocks |-> blocks, viewport |-> vp, id |-> id] :
      blocks \in ScreenLayouts, vp \in Viewports, id \in 1..MaxBlocks }

InitLayout ==
  /\ InitController
  /\ fnInput \in { call \in LayoutCalls : call.id <= Len(call.blocks) }
  /\ fnOutput = NoCall

EvalRenderBlock ==
  /\ fnOutput = NoCall
  /\ fnOutput' = RenderBlock(fnInput.blocks, fnInput.viewport, fnInput.id)
  /\ UNCHANGED <<controllerVars, fnInput>>

NextLayout == EvalRenderBlock

SpecLayout == InitLayout /\ [][NextLayout]_vars

\* ---------------------------------------------------------------------
\* FlowProgressBar: the progress fraction
\* ---------------------------------------------------------------------

\* largest totalScreens of a rendered flow
MaxScreens == 4

\* the progressIndicator prop and totalScreens; endScreen may be absent
ProgressConfig(total, start, hasEnd, end, skip) ==
  [totalScreens |-> total, startScreen |-> start, hasEndScreen |-> hasEnd,
   endScreen |-> end, skipScreens |-> skip]

ProgressConfigs ==
  { ProgressConfig(total, start, hasEnd, end, skip) :
      total \in 1..MaxScreens, start \in 0..(MaxScreens - 1), hasEnd \in BOOLEAN,
      end \in 0..(MaxScreens - 1), skip \in SUBSET (0..(MaxScreens - 1)) }

\* endScreen ?? totalScreens - 1
effectiveEnd(cfg) ==
  IF cfg.hasEndScreen THEN cfg.endScreen ELSE cfg.totalScreens - 1

\* Array.from({length: end - start + 1}, (_, i) => i + start).filter(not skipped)
RECURSIVE effectiveFrom(_, _)
effectiveFrom(cfg, i) ==
  IF i > effectiveEnd(cfg) THEN <<>>
  ELSE (IF i \in cfg.skipScreens THEN <<>> ELSE <<i>>) \o effectiveFrom(cfg, i + 1)

effectiveScreens(cfg) == effectiveFrom(cfg, cfg.startScreen)

\* Array.prototype.indexOf, zero-based, -1 when absent
indexOf(list, v) ==
  IF \E k \in 1..Len(list) : list[k] = v
  THEN (CHOOSE k \in 1..Len(list) : list[k] = v /\ \A j \in 1..(k - 1) : list[j] # v) - 1
  ELSE -1

Max0(n) == IF n > 0 THEN n ELSE 0

progress(cfg, index) ==
  LET list == effectiveScreens(cfg)
      effectiveTotal == Len(list)
      currentEffectiveIndex == indexOf(list, index)
  IN IF effectiveTotal > 1
     THEN Rat(Max0(currentEffectiveIndex), effectiveTotal - 1)
     ELSE RInt(1)

ProgressCall(cfg, index) == [fn |-> "progress", config |-> cfg, currentIndex |-> index]

\* the bar is first rendered on the first screen of its range
InitProgress ==
  /\ InitController
  /\ fnInput \in { ProgressCall(cfg, cfg.startScreen) :
                     cfg \in { c \in ProgressConfigs :
                                 /\ c.startScreen <= effectiveEnd(c)
                                 /\ effectiveEnd(c) < c.totalScreens
                                 /\ c.skipScreens \subseteq 0..(c.totalScreens - 1) } }
  /\ fnOutput = NoCall

\* first render
RenderProgress ==
  /\ fnOutput = NoCall
  /\ fnOutput' = [fn |-> "progress", value |-> progress(fnInput.config, fnInput.currentIndex)]
  /\ UNCHANGED <<controllerVars, fnInput>>

\* render after currentIndex moved one screen forward within the range
RenderNextIndex ==
  /\ fnOutput # NoCall
  /\ fnInput.currentIndex < effectiveEnd(fnInput.config)
  /\ fnInput' = ProgressCall(fnInput.config, fnInput.currentIndex + 1)
  /\ fnOutput' = [fn |-> "progress", value |-> progress(fnInput.config, fnInput.currentIndex + 1)]
  /\ UNCHANGED controllerVars

NextProgress == RenderProgress \/ RenderNextIndex

SpecProgress == InitProgress /\ [][NextProgress]_vars

\* ---------------------------------------------------------------------
\* SequenceClient: event queue and flushes
\* ---------------------------------------------------------------------

BATCH_SIZE == 10

\* events tracked in a run of the event queue
MaxEvents == 11

\* events tracked in a run of the provider
MaxTracked == 1

\* flushEvents calls awaiting their answer at one time
MaxInFlight == 2

\* configure() calls in a run
MaxConfigures == 2

\* firings of the flush timer that find events to send in a run
MaxTimerFlushes == 1

\* flushes the server does not accept in a run
MaxFailures == 1

\* what an operation is named by in lastAction
Op(name) == Action(name, "", UNDEF)

controllerFrame == <<screens, currentIndex, collectedData, validationErrors,
                     emitted, completeCount, experimentInfo, startedCount,
                     fnInput, fnOutput, animVars, checklistVars>>

Batch(events, owner) == [events |-> events, owner |-> owner]

RemoveAt(seq, k) == SubSeq(seq, 1, k - 1) \o SubSeq(seq, k + 1, Len(seq))

EventsOf(seq) == { seq[i] : i \in 1..Len(seq) }

\* the synchronous part of flushEvents on a queue: the batch taken, or none
\* when the client has no config or the queue is empty
FlushTakes(queue) == client.configured /\ queue # <<>>

\* track(): the event is appended when a config is set, and a queue that
\* reached BATCH_SIZE is handed to flushEvents before track returns
Track(cap) ==
  /\ client.nextEvent <= cap
  /\ lastAction' = Op("track")
  /\ IF ~client.configured
     THEN UNCHANGED <<client, inFlight, accepted>>
     ELSE LET queue == Append(client.pendingEvents, client.nextEvent)
          IN /\ accepted' = Append(accepted, 0)
             /\ IF Len(queue) >= BATCH_SIZE
                THEN /\ Len(inFlight) < MaxInFlight
                     /\ inFlight' = Append(inFlight, Batch(queue, "track"))
                     /\ client' = [client EXCEPT !.pendingEvents = <<>>,
                                                 !.nextEvent = @ + 1]
                ELSE /\ inFlight' = inFlight
                     /\ client' = [client EXCEPT !.pendingEvents = queue,
                                                 !.nextEvent = @ + 1]
  /\ UNCHANGED <<storage, provider, context, awaiting, controllerFrame>>

TrackEvent == Track(MaxEvents)

TrackSome == Track(MaxTracked)

\* the setInterval callback of startFlushTimer
TimerFlush ==
  /\ client.timer
  /\ FlushTakes(client.pendingEvents)
  /\ Len(inFlight) < MaxInFlight
  /\ client.timerFlushes < MaxTimerFlushes
  /\ lastAction' = Op("timerFlush")
  /\ inFlight' = Append(inFlight, Batch(client.pendingEvents, "timer"))
  /\ client' = [client EXCEPT !.pendingEvents = <<>>, !.timerFlushes = @ + 1]
  /\ UNCHANGED <<storage, accepted, provider, context, awaiting, controllerFrame>>

\* what follows the answer to a batch: trackOnboardingCompleted goes on to
\* its forced flush after the flush made by its track call, and returns
\* after the forced flush
AfterFlush(owner, queue, rest, failed) ==
  IF owner = "markTrack" /\ FlushTakes(queue)
  THEN /\ inFlight' = Append(rest, Batch(queue, "mark"))
       /\ client' = [client EXCEPT !.pendingEvents = <<>>,
                                   !.flushFailures = @ + failed]
       /\ awaiting' = awaiting
  ELSE /\ inFlight' = rest
       /\ client' = [client EXCEPT !.pendingEvents = queue,
                                   !.flushFailures = @ + failed]
       /\ awaiting' = IF owner \in {"mark", "markTrack"}
                      THEN awaiting \ {"markFlush"} ELSE awaiting

\* variant: a rejected batch is not put back
RequeueOf_Dropped(batch, queue) == queue

\* [...eventsToSend, ...this.pendingEvents]
RequeueOf(batch, queue) == batch \o queue

\* response.ok: the server accepted the batch
FlushOk(k) ==
  /\ lastAction' = Op("flushOk")
  /\ accepted' = [e \in 1..Len(accepted) |->
                    IF e \in EventsOf(inFlight[k].events)
                    THEN accepted[e] + 1 ELSE accepted[e]]
  /\ AfterFlush(inFlight[k].owner, client.pendingEvents, RemoveAt(inFlight, k), 0)
  /\ UNCHANGED <<storage, provider, context, controllerFrame>>

\* !response.ok: the batch goes back in front of the queue
FlushRejected(k) ==
  /\ client.flushFailures < MaxFailures
  /\ lastAction' = Op("flushRejected")
  /\ AfterFlush(inFlight[k].owner,
                RequeueOf(inFlight[k].events, client.pendingEvents),
                RemoveAt(inFlight, k), 1)
  /\ UNCHANGED <<storage, accepted, provider, context, controllerFrame>>

\* fetch threw: the batch goes back in front of the queue and the queue is
\* written to PENDING_EVENTS
FlushError(k) ==
  /\ client.flushFailures < MaxFailures
  /\ lastAction' = Op("flushError")
  /\ storage' = [storage EXCEPT
                   !.hasPending = TRUE,
                   !.pendingEvents = RequeueOf(inFlight[k].events, client.pendingEvents)]
  /\ AfterFlush(inFlight[k].owner,
                RequeueOf(inFlight[k].events, client.pendingEvents),
                RemoveAt(inFlight, k), 1)
  /\ UNCHANGED <<accepted, provider, context, controllerFrame>>

FlushAnswer ==
  \E k \in 1..Len(inFlight) : FlushOk(k) \/ FlushRejected(k) \/ FlushError(k)

\* the client after configure() on a fresh install
InitEvents ==
  /\ InitController
  /\ fnInput = NoCall
  /\ fnOutput = NoCall

ConfiguredOnce ==
  /\ ~client.configured
  /\ lastAction' = Op("configure")
  /\ client' = [client EXCEPT !.configured = TRUE, !.timer = TRUE,
                              !.configureCalls = 1]
  /\ UNCHANGED <<storage, inFlight, accepted, provider, context, awaiting, controllerFrame>>

NextEvents == ConfiguredOnce \/ TrackEvent \/ TimerFlush \/ FlushAnswer

SpecEvents == InitEvents /\ [][NextEvents]_vars

\* ---------------------------------------------------------------------
\* SequenceProvider and the client operations it calls
\* ---------------------------------------------------------------------

\* screens.length of a config the server may deliver
ScreenCounts == {0, 2}

\* useMemo of the context value: rebuilt, reading the client's completion
\* flag, only when a dependency (a useState value) changed in this render
ContextValue(depsChanged, completed, state) ==
  IF depsChanged
  THEN [isOnboardingCompleted |-> completed,
        screens |-> IF state.hasConfig THEN state.screens ELSE 0]
  ELSE context

useShouldShowOnboarding == ~context.isOnboardingCompleted /\ context.screens > 0

\* provider configure up to the first await inside Sequence.configure
ConfigureStart ==
  /\ "configure" \notin awaiting
  /\ client.configureCalls < MaxConfigures
  /\ lastAction' = Op("configure")
  /\ provider' = [provider EXCEPT !.isLoading = TRUE, !.hasError = FALSE]
  /\ client' = [client EXCEPT !.configured = TRUE, !.configureCalls = @ + 1]
  /\ context' = ContextValue(provider' # provider, client.isOnboardingCompleted, provider')
  /\ awaiting' = awaiting \cup {"configure"}
  /\ UNCHANGED <<storage, inFlight, accepted, controllerFrame>>

\* loadPersistedState once multiGet answered, startFlushTimer, and the rest
\* of provider configure
ConfigureFinish ==
  /\ "configure" \in awaiting
  /\ lastAction' = Op("configured")
  /\ client' = [client EXCEPT
                  !.isOnboardingCompleted = storage.completed,
                  !.pendingEvents = IF storage.hasPending
                                    THEN storage.pendingEvents ELSE @,
                  !.timer = TRUE]
  /\ provider' = [provider EXCEPT !.isConfigured = TRUE, !.isLoading = FALSE]
  /\ context' = ContextValue(provider' # provider, storage.completed, provider')
  /\ awaiting' = awaiting \ {"configure"}
  /\ UNCHANGED <<storage, inFlight, accepted, controllerFrame>>

\* provider fetchConfig up to the network request; without a client config
\* Sequence.fetchConfig throws at once and the catch and finally blocks run
FetchStart ==
  /\ "fetch" \notin awaiting
  /\ lastAction' = Op("fetchConfig")
  /\ IF client.configured
     THEN /\ provider' = [provider EXCEPT !.isLoading = TRUE, !.hasError = FALSE]
          /\ context' = ContextValue(provider' # provider,
                                     client.isOnboardingCompleted, provider')
          /\ awaiting' = awaiting \cup {"fetch"}
     ELSE /\ provider' = [provider EXCEPT !.isLoading = FALSE, !.hasError = TRUE]
          /\ context' = ContextValue(TRUE, client.isOnboardingCompleted, provider')
          /\ awaiting' = awaiting
  /\ UNCHANGED <<client, storage, inFlight, accepted, controllerFrame>>

\* the server answered with a config: it is cached and becomes provider state
FetchOk(n) ==
  /\ "fetch" \in awaiting
  /\ lastAction' = Op("fetched")
  /\ storage' = [storage EXCEPT !.hasCached = TRUE, !.cachedScreens = n]
  /\ provider' = [provider EXCEPT !.hasConfig = TRUE, !.screens = n, !.isLoading = FALSE]
  /\ context' = ContextValue(TRUE, client.isOnboardingCompleted, provider')
  /\ awaiting' = awaiting \ {"fetch"}
  /\ UNCHANGED <<client, inFlight, accepted, controllerFrame>>

\* the request failed: the cached config if there is one, else the error
FetchFailed ==
  /\ "fetch" \in awaiting
  /\ lastAction' = Op("fetchFailed")
  /\ provider' = IF storage.hasCached
                 THEN [provider EXCEPT !.hasConfig = TRUE,
                                       !.screens = storage.cachedScreens,
                                       !.isLoading = FALSE]
                 ELSE [provider EXCEPT !.hasError = TRUE, !.isLoading = FALSE]
  /\ context' = ContextValue(TRUE, client.isOnboardingCompleted, provider')
  /\ awaiting' = awaiting \ {"fetch"}
  /\ UNCHANGED <<client, storage, inFlight, accepted, controllerFrame>>

\* trackOnboardingCompleted up to the await of the storage write; the
\* provider sets no state
MarkStart ==
  /\ awaiting \cap {"markStore", "markFlush"} = {}
  /\ lastAction' = Op("markOnboardingCompleted")
  /\ client' = [client EXCEPT !.isOnboardingCompleted = TRUE]
  /\ storage' = [storage EXCEPT !.completed = TRUE]
  /\ awaiting' = awaiting \cup {"markStore"}
  /\ UNCHANGED <<inFlight, accepted, provider, context, controllerFrame>>

\* the track call of trackOnboardingCompleted and the flush that follows
MarkTrack ==
  /\ "markStore" \in awaiting
  /\ lastAction' = Op("markTracked")
  /\ IF ~client.configured
     THEN /\ awaiting' = awaiting \ {"markStore"}
          /\ UNCHANGED <<client, inFlight, accepted>>
     ELSE LET queue == Append(client.pendingEvents, client.nextEvent)
          IN /\ client.nextEvent <= MaxTracked + 1
             /\ Len(inFlight) < MaxInFlight
             /\ accepted' = Append(accepted, 0)
             /\ inFlight' = Append(inFlight,
                               Batch(queue, IF Len(queue) >= BATCH_SIZE
                                            THEN "markTrack" ELSE "mark"))
             /\ client' = [client EXCEPT !.pendingEvents = <<>>, !.nextEvent = @ + 1]
             /\ awaiting' = (awaiting \ {"markStore"}) \cup {"markFlush"}
  /\ UNCHANGED <<storage, provider, context, controllerFrame>>

\* Sequence.reset up to the await of multiRemove
ResetStart ==
  /\ "reset" \notin awaiting
  /\ lastAction' = Op("reset")
  /\ client' = [client EXCEPT !.isOnboardingCompleted = FALSE]
  /\ storage' = [storage EXCEPT !.completed = FALSE, !.hasCached = FALSE,
                                !.cachedScreens = 0]
  /\ awaiting' = awaiting \cup {"reset"}
  /\ UNCHANGED <<inFlight, accepted, provider, context, controllerFrame>>

\* setConfig(null) after Sequence.reset returned
ResetFinish ==
  /\ "reset" \in awaiting
  /\ lastAction' = Op("resetDone")
  /\ provider' = [provider EXCEPT !.hasConfig = FALSE, !.screens = 0]
  /\ context' = ContextValue(provider' # provider, client.isOnboardingCompleted, provider')
  /\ awaiting' = awaiting \ {"reset"}
  /\ UNCHANGED <<client, storage, inFlight, accepted, controllerFrame>>

FetchAnswer == FetchFailed \/ \E n \in ScreenCounts : FetchOk(n)

\* the provider as mounted; the completion key may be left from an earlier run
InitClient ==
  /\ screens = FlowA
  /\ currentIndex = 0
  /\ collectedData = EmptyData
  /\ validationErrors = {}
  /\ emitted = <<>>
  /\ completeCount = 0
  /\ lastAction = Op("mount")
  /\ experimentInfo = "null"
  /\ startedCount = 0
  /\ fnInput = NoCall
  /\ fnOutput = NoCall
  /\ client = [configured |-> FALSE, isOnboardingCompleted |-> FALSE,
               pendingEvents |-> <<>>, timer |-> FALSE,
               nextEvent |-> 1, configureCalls |-> 0,
               timerFlushes |-> 0, flushFailures |-> 0]
  /\ storage \in { [completed |-> c, hasPending |-> FALSE, pendingEvents |-> <<>>,
                    hasCached |-> FALSE, cachedScreens |-> 0] : c \in BOOLEAN }
  /\ inFlight = <<>>
  /\ accepted = <<>>
  /\ provider = [isConfigured |-> FALSE, isLoading |-> FALSE, hasError |-> FALSE,
                 hasConfig |-> FALSE, screens |-> 0]
  /\ context = [isOnboardingCompleted |-> FALSE, screens |-> 0]
  /\ awaiting = {}
  /\ InitAnim
  /\ InitChecklist

NextClient ==
  \/ ConfigureStart \/ ConfigureFinish
  \/ FetchStart \/ FetchAnswer
  \/ MarkStart \/ MarkTrack
  \/ ResetStart \/ ResetFinish
  \/ TrackSome \/ TimerFlush \/ FlushAnswer

SpecClient == InitClient /\ [][NextClient]_vars

\* ---------------------------------------------------------------------
\* navigateTo and animateTransition on the shared animated values
\* ---------------------------------------------------------------------

\* navigateTo calls in a run
MaxNavigations == 3

AnimatedValues == {"slide", "slideY", "fade", "scale"}

\* slideAnim 0, slideYAnim 0, fadeAnim 1, scaleAnim 1
AtRest == [slide |-> "0", slideY |-> "0", fade |-> "1", scale |-> "1"]

\* a four-screen flow whose edges use every branch of animateTransition;
\* "flip" is a kind the switch does not know
AnimScreens ==
  << ScreenRec("A", FALSE, <<>>), ScreenRec("B", FALSE, <<>>),
     ScreenRec("C", FALSE, <<>>), ScreenRec("D", FALSE, <<>>) >>

AnimFlow ==
  << TScreen("A", "slide-left"), TScreen("B", ""),
     TScreen("C", "none"), TScreen("D", "flip") >>

AnimOverrides ==
  << Override("A", "B", "scale"), Override("A", "C", "slide-up"),
     Override("B", "A", "fade-slide-right"), Override("B", "C", "slide-down"),
     Override("C", "D", "fade-slide-left"), Override("D", "A", "slide-right"),
     Override("D", "C", "fade-slide-left"), Override("C", "B", "fade-slide-right") >>

SlideFrom(positive) == IF positive THEN "W" ELSE "-W"

\* variant: a transition sets only the values it animates
TransitionPlan_NoReset(transition, isForward) ==
  IF transition = "none" THEN [set |-> AtRest, animate |-> {}]
  ELSE IF transition = "fade"
    THEN [set |-> [fade |-> "0"], animate |-> {"fade"}]
  ELSE IF transition \in {"slide-up", "slide-down"}
    THEN [set |-> [slideY |-> IF transition = "slide-up" THEN "H" ELSE "-H"],
          animate |-> {"slideY"}]
  ELSE IF transition = "scale"
    THEN [set |-> [fade |-> "0", scale |-> "0.8"], animate |-> {"scale", "fade"}]
  ELSE IF transition \in {"slide-left", "slide-right"}
    THEN [set |-> [slide |-> SlideFrom(transition = "slide-left")], animate |-> {"slide"}]
  ELSE [set |-> [slide |-> SlideFrom(isForward), fade |-> "0"],
        animate |-> {"slide", "fade"}]

\* variant: the scale transition animates the opacity only
TransitionPlan_ScaleForgotten(transition, isForward) ==
  IF transition = "scale"
  THEN [set |-> [AtRest EXCEPT !.fade = "0", !.scale = "0.8"], animate |-> {"fade"}]
  ELSE IF transition = "none" THEN [set |-> AtRest, animate |-> {}]
  ELSE [set |-> [AtRest EXCEPT !.fade = "0"], animate |-> {"fade"}]

\* the switch of animateTransition: the values written with setValue and the
\* values a timing animation is started on (each towards its rest value)
TransitionPlan(transition, isForward) ==
  IF transition = "none"
    THEN [set |-> AtRest, animate |-> {}]
  ELSE IF transition = "fade"
    THEN [set |-> [AtRest EXCEPT !.fade = "0"], animate |-> {"fade"}]
  ELSE IF transition = "slide-left"
    THEN [set |-> [AtRest EXCEPT !.slide = "W"], animate |-> {"slide"}]
  ELSE IF transition = "slide-right"
    THEN [set |-> [AtRest EXCEPT !.slide = "-W"], animate |-> {"slide"}]
  ELSE IF transition = "slide-up"
    THEN [set |-> [AtRest EXCEPT !.slideY = "H"], animate |-> {"slideY"}]
  ELSE IF transition = "slide-down"
    THEN [set |-> [AtRest EXCEPT !.slideY = "-H"], animate |-> {"slideY"}]
  ELSE IF transition = "fade-slide-left"
    THEN [set |-> [AtRest EXCEPT !.slide = SlideFrom(isForward), !.fade = "0"],
          animate |-> {"slide", "fade"}]
  ELSE IF transition = "fade-slide-right"
    THEN [set |-> [AtRest EXCEPT !.slide = SlideFrom(~isForward), !.fade = "0"],
          animate |-> {"slide", "fade"}]
  ELSE IF transition = "scale"
    THEN [set |-> [AtRest EXCEPT !.fade = "0", !.scale = "0.8"],
          animate |-> {"scale", "fade"}]
  ELSE [set |-> [AtRest EXCEPT !.slide = SlideFrom(isForward), !.fade = "0"],
        animate |-> {"slide", "fade"}]

\* the transitions whose animation a setValue of this plan stops
StoppedBy(plan) == { animRunning[v] : v \in DOMAIN plan.set } \ {0}

\* animateTransition: setValue stops the animation running on the value, a
\* stopped member of a parallel animation stops the other members, and the
\* new timing animations take the values over
animateTransition(transition, isForward) ==
  LET plan == TransitionPlan(transition, isForward)
      id == animStarted + 1
  IN /\ animStarted' = id
     /\ animValues' = [v \in AnimatedValues |->
                         IF v \in DOMAIN plan.set THEN plan.set[v] ELSE animValues[v]]
     /\ animRunning' = [v \in AnimatedValues |->
                          IF v \in plan.animate THEN id
                          ELSE IF v \in DOMAIN plan.set THEN 0
                          ELSE IF animRunning[v] \in StoppedBy(plan) THEN 0
                          ELSE animRunning[v]]

AnimTask(transition, isForward, target) ==
  [transition |-> transition, isForward |-> isForward, target |-> target]

\* variant: the animation is started inside navigateTo
ScheduleAnimation_Immediate(task) ==
  /\ animateTransition(task.transition, task.isForward)
  /\ animTasks' = animTasks

\* InteractionManager.runAfterInteractions(() => animateTransition(...))
ScheduleAnimation(task) ==
  /\ animTasks' = Append(animTasks, task)
  /\ UNCHANGED <<animValues, animRunning, animStarted>>

animFrame == <<screens, collectedData, validationErrors, completeCount,
               experimentInfo, startedCount, fnInput, fnOutput,
               sdkVars, checklistVars>>

\* navigateTo with its transition: kind and direction are computed from the
\* currentIndex of the render the handler belongs to, then the index is set
\* and the animation is handed to the InteractionManager
NavigateAnimated(targetIndex) ==
  /\ Len(animTasks) + animStarted < MaxNavigations
  /\ lastAction' = Action("navigateTo", "", Num(targetIndex))
  /\ navigateTo(targetIndex)
  /\ IF targetIndex < 0 \/ targetIndex >= Len(screens)
     THEN UNCHANGED animVars
     ELSE ScheduleAnimation(
            AnimTask(getTransition(AnimFlow, AnimOverrides, currentIndex, targetIndex),
                     targetIndex > currentIndex, targetIndex))
  /\ UNCHANGED animFrame

\* the InteractionManager runs the oldest callback
RunAnimationTask ==
  /\ animTasks # <<>>
  /\ lastAction' = Action("animateTransition", Head(animTasks).transition,
                          Num(Cardinality({ v \in AnimatedValues : animRunning[v] # 0 })))
  /\ animateTransition(Head(animTasks).transition, Head(animTasks).isForward)
  /\ animTasks' = Tail(animTasks)
  /\ UNCHANGED <<currentIndex, emitted, animFrame>>

\* a timing animation reaches its toValue
AnimationEnds(v) ==
  /\ animRunning[v] # 0
  /\ lastAction' = Action("animationEnd", v, UNDEF)
  /\ animValues' = [animValues EXCEPT ![v] = AtRest[v]]
  /\ animRunning' = [animRunning EXCEPT ![v] = 0]
  /\ UNCHANGED <<currentIndex, emitted, animTasks, animStarted, animFrame>>

InitAnimator ==
  /\ screens = AnimScreens
  /\ currentIndex \in 0..(Len(AnimScreens) - 1)
  /\ collectedData = EmptyData
  /\ validationErrors = {}
  /\ emitted = << Signal("onboarding_started", "", EmptyData),
                  Signal("screen_viewed", ScreenAt(currentIndex).id, EmptyData) >>
  /\ completeCount = 0
  /\ lastAction = Action("mount", "", UNDEF)
  /\ experimentInfo = "null"
  /\ startedCount = 1
  /\ fnInput = NoCall
  /\ fnOutput = NoCall
  /\ InitSdk
  /\ InitAnim
  /\ InitChecklist

NavigateAnyTarget ==
  \E t \in (0 - NavOvershoot)..(Len(AnimScreens) - 1 + NavOvershoot) : NavigateAnimated(t)

AnimationEnd == \E v \in AnimatedValues : AnimationEnds(v)

NextAnim == NavigateAnyTarget \/ RunAnimationTask \/ AnimationEnd

SpecAnim == InitAnimator /\ [][NextAnim]_vars

\* ---------------------------------------------------------------------
\* ChecklistBlock: handleItemPress and the auto-advance timeout
\* ---------------------------------------------------------------------

\* item presses in a run
MaxPresses == 3

ChecklistItems == {"sports", "music", "art"}

ChecklistField == "interests"

\* content of the checklist block; minSelections and maxSelections may be
\* absent, action "" is no action
ChecklistContent(allowMultiple, hasMin, min, hasMax, max, autoAdvance, action) ==
  [present |-> TRUE, allowMultiple |-> allowMultiple,
   hasMinSelections |-> hasMin, minSelections |-> min,
   hasMaxSelections |-> hasMax, maxSelections |-> max,
   autoAdvance |-> autoAdvance, action |-> action, pressCount |-> 0]

ChecklistContents ==
  { ChecklistContent(multi, hasMin, min, hasMax, max, auto, action) :
      multi \in BOOLEAN, hasMin \in BOOLEAN, min \in 0..2,
      hasMax \in BOOLEAN, max \in 0..2, auto \in BOOLEAN,
      action \in {"", "next", "complete"} }

\* a screen with the checklist, followed by a last screen
ChecklistScreens(content) ==
  << ScreenRec("pick", TRUE,
        << Block("checklist", FALSE,
                 IF content.hasMinSelections THEN content.minSelections ELSE 0,
                 ChecklistField) >>),
     ScreenRec("done", FALSE, <<>>) >>

\* minSelections = 1 of the destructuring in ChecklistBlock
MinSelectionsOf(content) ==
  IF content.hasMinSelections THEN content.minSelections ELSE 1

\* the selectedItems prop: the array, a truthy scalar as a list of one,
\* [] otherwise (String(selected) is kept as the scalar itself)
SelectedItemsOf(data) ==
  IF data[ChecklistField].kind = "array" THEN data[ChecklistField].arr
  ELSE IF Truthy(data[ChecklistField]) THEN <<data[ChecklistField]>>
  ELSE <<>>

Includes(seq, item) == \E i \in 1..Len(seq) : seq[i] = item

Without(seq, item) == SelectSeq(seq, LAMBDA x : x # item)

\* newSelection of handleItemPress
NewSelection(content, selectedItems, itemId) ==
  IF content.allowMultiple
  THEN IF Includes(selectedItems, itemId)
       THEN IF Len(selectedItems) > MinSelectionsOf(content)
            THEN Without(selectedItems, itemId) ELSE selectedItems
       ELSE IF \/ ~content.hasMaxSelections
               \/ content.maxSelections = 0
               \/ Len(selectedItems) < content.maxSelections
            THEN Append(selectedItems, itemId) ELSE selectedItems
  ELSE IF Includes(selectedItems, itemId) THEN <<>> ELSE <<itemId>>

\* what a handler of a render sees: that render's currentIndex and collectedData
Closure(index, data) == [index |-> index, data |-> data]

checklistFrame == <<screens, experimentInfo, startedCount, fnInput, fnOutput,
                    sdkVars, animVars>>

\* handleItemPress up to the await of the haptics call
PressStart(itemId) ==
  /\ checklist.pressCount < MaxPresses
  /\ currentScreen.id = "pick"
  /\ lastAction' = Action("press", itemId, UNDEF)
  /\ checklist' = [checklist EXCEPT !.pressCount = @ + 1]
  /\ presses' = Append(presses, [itemId |-> itemId,
                                 closure |-> Closure(currentIndex, collectedData)])
  /\ emitted' = <<>>
  /\ UNCHANGED <<currentIndex, collectedData, validationErrors, completeCount,
                 autoTimers, checklistFrame>>

\* the rest of handleItemPress: the new selection is computed from the
\* selectedItems of the render the press belongs to, handed to
\* handleDataChange, and the auto-advance timeout is set with that render's
\* onAction
PressFinish ==
  /\ presses # <<>>
  /\ LET press == Head(presses)
         newSelection == NewSelection(checklist, SelectedItemsOf(press.closure.data),
                                      press.itemId)
     IN /\ lastAction' = Action("pressed", press.itemId, Arr(newSelection))
        /\ collectedData' = [collectedData EXCEPT ![ChecklistField] = Arr(newSelection)]
        /\ validationErrors' = validationErrors \ {ChecklistField}
        /\ autoTimers' =
             IF /\ ~checklist.allowMultiple
                /\ checklist.autoAdvance
                /\ checklist.action # ""
                /\ newSelection # <<>>
             THEN Append(autoTimers, [action |-> checklist.action,
                                      closure |-> press.closure,
                                      selection |-> newSelection])
             ELSE autoTimers
  /\ presses' = Tail(presses)
  /\ emitted' = <<>>
  /\ UNCHANGED <<currentIndex, completeCount, checklist, checklistFrame>>

\* the onAction captured by the timeout callback
ClosureOf(timer) == timer.closure

\* the timeout fires: handleAction of the captured render runs on the
\* currentIndex and collectedData of that render
FireAutoAdvance ==
  /\ autoTimers # <<>>
  /\ LET timer == Head(autoTimers)
         seen == ClosureOf(timer)
         screen == ScreenAt(seen.index)
     IN /\ lastAction' = Action("autoAdvance", timer.action, Arr(timer.selection))
        /\ validationErrors' = ValidatedErrors(screen, seen.data, validationErrors)
        /\ IF ~ValidatePasses(screen, seen.data)
           THEN /\ currentIndex' = currentIndex
                /\ emitted' = <<>>
                /\ completeCount' = completeCount
           ELSE IF timer.action = "next" /\ seen.index < Len(screens) - 1
           THEN /\ currentIndex' = seen.index + 1
                /\ emitted' = << Signal("screen_completed", screen.id, EmptyData) >>
                                \o ViewedEffect(currentIndex, seen.index + 1)
                /\ completeCount' = completeCount
           ELSE /\ completeCount < MaxCompletions
                /\ completeCount' = completeCount + 1
                /\ emitted' = << Signal("onboarding_completed", "", seen.data),
                                 Signal("onComplete", "", seen.data) >>
                /\ currentIndex' = currentIndex
  /\ autoTimers' = Tail(autoTimers)
  /\ UNCHANGED <<collectedData, checklist, presses, checklistFrame>>

InitChecklistFlow ==
  /\ checklist \in ChecklistContents
  /\ screens = ChecklistScreens(checklist)
  /\ currentIndex = 0
  /\ collectedData = EmptyData
  /\ validationErrors = {}
  /\ emitted = << Signal("onboarding_started", "", EmptyData),
                  Signal("screen_viewed", "pick", EmptyData) >>
  /\ completeCount = 0
  /\ lastAction = Action("mount", "", UNDEF)
  /\ experimentInfo = "null"
  /\ startedCount = 1
  /\ fnInput = NoCall
  /\ fnOutput = NoCall
  /\ InitSdk
  /\ InitAnim
  /\ presses = <<>>
  /\ autoTimers = <<>>

ItemPress == \E itemId \in ChecklistItems : PressStart(itemId)

NextChecklist == ItemPress \/ PressFinish \/ FireAutoAdvance

SpecChecklist == InitChecklistFlow /\ [][NextChecklist]_vars

\* ---------------------------------------------------------------------
\* Properties
\* ---------------------------------------------------------------------

SigsOf(calls) == {calls[i].sig : i \in 1..Len(calls)}

LastIndex == Len(screens) - 1

InRange(i) == i >= 0 /\ i < Len(screens)

\* the onComplete call of a handler hands over exactly this map
CompletesWith(calls, data) ==
  /\ \E i \in 1..Len(calls) : calls[i] = Signal("onComplete", "", data)
  /\ \A i \in 1..Len(calls) : calls[i].sig = "onComplete" => calls[i].data = data

\* C1: a next, complete or screen action whose validation fails leaves
\* currentIndex unchanged, emits neither onComplete nor screen_completed and
\* sets validationErrors to exactly the failing field names ({"email"} for the
\* required input with no data); a data change removes its field from
\* validationErrors, and after onDataChange("email", "a@b.com") on that screen
\* the next action navigates.
C1_ValidationFailureBlocks ==
  [][ /\ ( /\ lastAction'.type \in {"next", "complete", "screen"}
           /\ ~ValidatePasses(currentScreen, collectedData) )
         => /\ currentIndex' = currentIndex
            /\ completeCount' = completeCount
            /\ SigsOf(emitted') \cap {"onComplete", "onboarding_completed", "screen_completed"} = {}
            /\ validationErrors' = ValidationFailures(currentScreen, collectedData)
      /\ ( /\ lastAction'.type \in {"next", "complete", "screen"}
           /\ currentScreen.id = "welcome"
           /\ collectedData["email"] = UNDEF )
         => validationErrors' = {"email"}
      /\ lastAction'.type = "dataChange" => lastAction'.arg \notin validationErrors'
      /\ ( /\ lastAction = Action("dataChange", "email", Str(EmailText))
           /\ lastAction'.type = "next"
           /\ currentScreen.id = "welcome" )
         => currentIndex' = currentIndex + 1 /\ "email" \notin validationErrors'
    ]_vars

C1_Witness ==
  /\ lastAction.type = "next"
  /\ screens = FlowA
  /\ currentIndex = 0
  /\ validationErrors = {"email"}
  /\ emitted = <<>>
  /\ collectedData["interests"] # UNDEF

\* C2: a next action whose validation passes moves to currentIndex+1 when not
\* on the last screen, and on the last screen calls onComplete with the
\* collected data and leaves currentIndex unchanged.
C2_NextAdvancesOrCompletes ==
  [][ ( /\ lastAction'.type = "next"
        /\ ValidatePasses(currentScreen, collectedData) )
      => IF currentIndex # LastIndex
         THEN /\ currentIndex' = currentIndex + 1
              /\ "onComplete" \notin SigsOf(emitted')
              /\ completeCount' = completeCount
         ELSE /\ currentIndex' = currentIndex
              /\ CompletesWith(emitted', collectedData)
              /\ completeCount' = completeCount + 1
    ]_vars

C2_Witness ==
  /\ lastAction.type = "next"
  /\ currentIndex = LastIndex
  /\ completeCount = 1
  /\ collectedData["email"] = Str(EmailText)
  /\ CompletesWith(emitted, collectedData)

\* C3 (as claimed): over the lifetime of one flow controller onComplete is
\* invoked no more than once, whatever actions follow the first completion.
C3_CompleteAtMostOnce == completeCount <= 1

\* C4: currentIndex stays within [0, screens.length), and navigateTo with a
\* target outside that range changes no state and emits no signal.
C4_IndexInRange ==
  /\ [] InRange(currentIndex)
  /\ [][ ( /\ lastAction'.type = "navigateTo"
           /\ ~InRange(lastAction'.value.num) )
         => /\ currentIndex' = currentIndex
            /\ collectedData' = collectedData
            /\ validationErrors' = validationErrors
            /\ completeCount' = completeCount
            /\ emitted' = <<>>
       ]_vars

C4_Witness ==
  /\ lastAction.type = "navigateTo"
  /\ lastAction.value.num = Len(screens)
  /\ currentIndex = LastIndex
  /\ emitted = <<>>

\* field names of the input and checklist blocks of a screen
ValidatedFieldsOf(screen) ==
  IF ~screen.hasBlocks THEN {}
  ELSE { screen.blocks[i].fieldName : i \in
           { j \in 1..Len(screen.blocks) :
               /\ screen.blocks[j].type \in {"input", "checklist"}
               /\ screen.blocks[j].fieldName # "" } }

\* C5 (as claimed): in every reachable state validationErrors contains only
\* field names of input/checklist blocks of the current screen, so errors
\* recorded on one screen are gone once currentIndex shows another screen.
C5_ErrorsOfCurrentScreenOnly ==
  validationErrors \subseteq ValidatedFieldsOf(currentScreen)

\* C6 (as claimed): a screen action whose screenId matches no screen leaves
\* currentIndex, collectedData and validationErrors as they were and emits
\* no signal.
C6_UnknownScreenNoOp ==
  [][ ( /\ lastAction'.type = "screen"
        /\ \A i \in 1..Len(screens) : screens[i].id # lastAction'.arg )
      => /\ currentIndex' = currentIndex
         /\ collectedData' = collectedData
         /\ validationErrors' = validationErrors
         /\ emitted' = <<>>
    ]_vars

\* C6 (amended): a screen action whose screenId matches no screen does not
\* navigate, emits no signal and leaves currentIndex and collectedData as
\* they were; validationErrors is the result of the validation that runs
\* first: the current screen's failing fields (empty when it passes), or the
\* previous set on a screen without a blocks array.
C6_UnknownScreenNoNavigation ==
  [][ ( /\ lastAction'.type = "screen"
        /\ \A i \in 1..Len(screens) : screens[i].id # lastAction'.arg )
      => /\ currentIndex' = currentIndex
         /\ collectedData' = collectedData
         /\ completeCount' = completeCount
         /\ emitted' = <<>>
         /\ validationErrors' =
              IF currentScreen.hasBlocks
              THEN ValidationFailures(currentScreen, collectedData)
              ELSE validationErrors
    ]_vars

C6_Witness ==
  /\ lastAction = Action("screen", UnknownScreenId, UNDEF)
  /\ screens = FlowB
  /\ currentIndex = 2
  /\ validationErrors = {"interests"}
  /\ collectedData["email"] = Str(EmailText)
  /\ emitted = <<>>

\* C7: onDataChange(fieldName, value) sets collectedData[fieldName] to value,
\* leaves every other field unchanged, removes fieldName from
\* validationErrors, leaves its other members unchanged and never changes
\* currentIndex.
C7_DataChangeFrame ==
  [][ lastAction'.type = "dataChange"
      => /\ collectedData'[lastAction'.arg] = lastAction'.value
         /\ \A f \in FieldNames \ {lastAction'.arg} : collectedData'[f] = collectedData[f]
         /\ lastAction'.arg \notin validationErrors'
         /\ \A f \in FieldNames \ {lastAction'.arg} :
              (f \in validationErrors') <=> (f \in validationErrors)
         /\ validationErrors' \subseteq validationErrors
         /\ currentIndex' = currentIndex
    ]_vars

C7_Witness ==
  /\ lastAction = Action("dataChange", "email", Str(EmailText))
  /\ collectedData["email"] = Str(EmailText)
  /\ collectedData["interests"] = Arr(<<>>)
  /\ validationErrors = {"interests"}

\* C8: collectedData is changed only by the data-change handler; no next,
\* previous, screen, complete or custom action alters it, so onComplete
\* receives the values entered earlier.
C8_DataChangedOnlyByDataChange ==
  [][ /\ collectedData' # collectedData => lastAction'.type = "dataChange"
      /\ lastAction'.type \in {"next", "previous", "screen", "complete", "custom"}
           => /\ collectedData' = collectedData
              /\ \A i \in 1..Len(emitted') :
                   emitted'[i].sig = "onComplete" => emitted'[i].data = collectedData'
    ]_vars

C8_Witness ==
  /\ lastAction.type = "complete"
  /\ screens = FlowA
  /\ currentIndex = 1
  /\ collectedData["interests"] = Arr(<<"sports", "music">>)
  /\ collectedData["email"] = Str(EmailText)
  /\ \E i \in 1..Len(emitted) : emitted[i] = Signal("onComplete", "", collectedData)

\* C9: a previous action navigates to currentIndex-1 whenever currentIndex > 0
\* and does nothing at index 0; it is never validated, so it navigates even
\* when the current screen has unsatisfied required fields.
C9_PreviousUnvalidated ==
  [][ lastAction'.type = "previous"
      => /\ validationErrors' = validationErrors
         /\ completeCount' = completeCount
         /\ IF currentIndex > 0
            THEN /\ currentIndex' = currentIndex - 1
                 /\ "screen_completed" \in SigsOf(emitted')
            ELSE /\ currentIndex' = currentIndex
                 /\ emitted' = <<>>
    ]_vars

C9_Witness ==
  /\ lastAction.type = "previous"
  /\ screens = FlowA
  /\ currentIndex = 0
  /\ ~ValidatePasses(ScreenAt(1), collectedData)
  /\ \E i \in 1..Len(emitted) : emitted[i] = Signal("screen_completed", "interests", EmptyData)

\* C10: a complete action whose validation passes calls onComplete with
\* collectedData from any current index and does not change currentIndex.
C10_CompleteFromAnyIndex ==
  [][ ( /\ lastAction'.type = "complete"
        /\ ValidatePasses(currentScreen, collectedData) )
      => /\ currentIndex' = currentIndex
         /\ CompletesWith(emitted', collectedData)
         /\ "screen_completed" \notin SigsOf(emitted')
         /\ completeCount' = completeCount + 1
    ]_vars

C10_Witness ==
  /\ lastAction.type = "complete"
  /\ currentIndex = 0
  /\ completeCount = 1
  /\ CompletesWith(emitted, collectedData)

\* C11: a custom action forwards its identifier unchanged to onCustomAction,
\* is not validated, and changes neither currentIndex nor validationErrors
\* nor collectedData.
C11_CustomForwarded ==
  [][ lastAction'.type = "custom"
      => /\ emitted' = << Signal("onCustomAction", lastAction'.arg, EmptyData) >>
         /\ currentIndex' = currentIndex
         /\ validationErrors' = validationErrors
         /\ collectedData' = collectedData
         /\ completeCount' = completeCount
    ]_vars

C11_Witness ==
  /\ lastAction = Action("custom", "upgrade", UNDEF)
  /\ emitted = << Signal("onCustomAction", "upgrade", EmptyData) >>
  /\ screens = FlowA
  /\ currentIndex = 0
  /\ ~ValidatePasses(currentScreen, collectedData)
  /\ validationErrors = {}

\* C12 (as claimed): onboarding_started is emitted exactly once per flow
\* controller lifetime, whatever navigation happens and whatever happens to
\* the experimentInfo passed in while the controller is mounted.
C12_StartedExactlyOnce == startedCount = 1

\* number of signals sig among the calls of one handler
CountOf(calls, sig) == Cardinality({i \in 1..Len(calls) : calls[i].sig = sig})

\* C13 (as claimed): a step that changes currentIndex emits exactly one
\* screen_completed carrying the outgoing screen's id, and a step that leaves
\* currentIndex where it was emits no screen_completed.
C13_CompletedIffNavigated ==
  [][ IF currentIndex' # currentIndex
      THEN /\ CountOf(emitted', "screen_completed") = 1
           /\ \A i \in 1..Len(emitted') :
                emitted'[i].sig = "screen_completed" => emitted'[i].arg = currentScreen.id
      ELSE CountOf(emitted', "screen_completed") = 0
    ]_vars

\* C14: screen_viewed is emitted once at mount for the initial screen and once
\* each time currentIndex changes to a screen with a new id, carrying that
\* id; it is not emitted while the current screen stays the same.
C14_ViewedOncePerNewScreen ==
  /\ [] ( lastAction.type = "mount"
          => /\ CountOf(emitted, "screen_viewed") = 1
             /\ \E i \in 1..Len(emitted) :
                  emitted[i] = Signal("screen_viewed", currentScreen.id, EmptyData) )
  /\ [][ IF ScreenAt(currentIndex').id # currentScreen.id
         THEN /\ CountOf(emitted', "screen_viewed") = 1
              /\ \E i \in 1..Len(emitted') :
                   emitted'[i] = Signal("screen_viewed", ScreenAt(currentIndex').id, EmptyData)
         ELSE CountOf(emitted', "screen_viewed") = 0
       ]_vars

C14_Witness ==
  /\ lastAction = Action("screen", "done", UNDEF)
  /\ screens = FlowA
  /\ currentIndex = 2
  /\ emitted = << Signal("screen_completed", "welcome", EmptyData),
                  Signal("screen_viewed", "done", EmptyData) >>

\* the override entries for the edge of the evaluated call
C15_EdgeEntries ==
  { k \in 1..Len(fnInput.transitions) :
      /\ fnInput.transitions[k].fromScreenId = fnInput.flow[fnInput.fromIndex + 1].id
      /\ fnInput.transitions[k].toScreenId = fnInput.flow[fnInput.toIndex + 1].id }

\* C15: the transition for a navigation from A to B is the one of the
\* override entry for (A, B) when there is one (the first when several),
\* otherwise A's declared default, otherwise "fade"; an A->B override of
\* "scale" wins over A's own default "fade".
C15_TransitionResolution ==
  fnOutput.fn = "getTransition" =>
    /\ C15_EdgeEntries # {}
         => /\ fnOutput.transition \in
                 { fnInput.transitions[k].transition : k \in C15_EdgeEntries }
            /\ \E k \in C15_EdgeEntries :
                 /\ \A m \in C15_EdgeEntries : k <= m
                 /\ fnOutput.transition = fnInput.transitions[k].transition
    /\ ( C15_EdgeEntries = {} /\ fnInput.flow[fnInput.fromIndex + 1].transition # "" )
         => fnOutput.transition = fnInput.flow[fnInput.fromIndex + 1].transition
    /\ ( C15_EdgeEntries = {} /\ fnInput.flow[fnInput.fromIndex + 1].transition = "" )
         => fnOutput.transition = "fade"
    /\ ( /\ fnInput.transitions = << Override("A", "B", "scale") >>
         /\ fnInput.flow[1] = TScreen("A", "fade")
         /\ fnInput.fromIndex = 0
         /\ fnInput.toIndex = 1 )
         => fnOutput.transition = "scale"

C15_Witness ==
  /\ fnOutput.fn = "getTransition"
  /\ fnInput.transitions = << Override("A", "B", "scale") >>
  /\ fnInput.flow[1] = TScreen("A", "fade")
  /\ fnInput.fromIndex = 0
  /\ fnInput.toIndex = 1
  /\ fnOutput.transition = "scale"

\* the block a layout call is about
LaidOutBlock == fnInput.blocks[fnInput.id]

\* the legacy rule stated over the blocks of the call: at least one block has
\* a position and no positioned block lies beyond the old canvas
LegacyRuleApplies ==
  /\ \E i \in 1..Len(fnInput.blocks) : fnInput.blocks[i].hasPosition
  /\ \A i \in 1..Len(fnInput.blocks) :
       fnInput.blocks[i].hasPosition
         => fnInput.blocks[i].x <= 320 /\ fnInput.blocks[i].y <= 693

\* m is v * new / old rounded to the nearest integer, halves upwards
IsRounded(m, v, new, old) ==
  /\ 2 * old * m - old <= 2 * new * v
  /\ 2 * new * v < 2 * old * m + old

\* the device position is the logical position q scaled by the viewport
ScaledFrom(q) ==
  /\ fnOutput.left.n * q.x.d * 393 = q.x.n * fnInput.viewport.w * fnOutput.left.d
  /\ fnOutput.top.n * q.y.d * 852 = q.y.n * fnInput.viewport.h * fnOutput.top.d

\* C16 (as claimed): every rendered block with logical position p is placed
\* at exactly (p.x * Wd/393, p.y * Hd/852); on 786x1704 a block at (24,150)
\* is placed at (48,300).
C16_ScaledFromAuthoredPosition ==
  ( /\ fnOutput.fn = "renderBlock"
    /\ fnOutput.rendered
    /\ ~fnOutput.pinned
    /\ LaidOutBlock.hasPosition )
  => /\ ScaledFrom(Point(RInt(LaidOutBlock.x), RInt(LaidOutBlock.y)))
     /\ ( LaidOutBlock.x = 24 /\ LaidOutBlock.y = 150 /\ fnInput.viewport = Viewport(786, 1704) )
          => REq(fnOutput.left, RInt(48)) /\ REq(fnOutput.top, RInt(300))

\* C16 (amended): a rendered block outside the pinned stack with logical
\* position p is placed at exactly (q.x * Wd/393, q.y * Hd/852), where q = p
\* on a screen to which legacy migration does not apply and
\* q = (round(p.x*393/320), round(p.y*852/693)) on a screen to which it
\* applies; on 786x1704 a block at (24,150) is placed at (48,300) when the
\* screen is not migrated and at (58,368) when it is, and a content-width
\* block without a numeric styling width has max width 560.
C16_ScaledFromMigratedPosition ==
  ( fnOutput.fn = "renderBlock" /\ fnOutput.rendered )
  => /\ ( ~fnOutput.pinned /\ LaidOutBlock.hasPosition )
          => /\ ScaledFrom(fnOutput.pos)
             /\ fnOutput.pos.x.d = 1 /\ fnOutput.pos.y.d = 1
             /\ IF LegacyRuleApplies
                THEN /\ IsRounded(fnOutput.pos.x.n, LaidOutBlock.x, 393, 320)
                     /\ IsRounded(fnOutput.pos.y.n, LaidOutBlock.y, 852, 693)
                ELSE /\ fnOutput.pos.x.n = LaidOutBlock.x
                     /\ fnOutput.pos.y.n = LaidOutBlock.y
             /\ ( LaidOutBlock.x = 24 /\ LaidOutBlock.y = 150
                  /\ fnInput.viewport = Viewport(786, 1704) )
                  => IF LegacyRuleApplies
                     THEN REq(fnOutput.left, RInt(58)) /\ REq(fnOutput.top, RInt(368))
                     ELSE REq(fnOutput.left, RInt(48)) /\ REq(fnOutput.top, RInt(300))
     /\ ( /\ LaidOutBlock.type \notin {"checklist", "input", "progress", "divider", "slider"}
          /\ LaidOutBlock.widthKind # "number"
          /\ fnInput.viewport = Viewport(786, 1704) )
          => REq(fnOutput.maxWidth, RInt(560))

C16_Witness ==
  /\ fnOutput.fn = "renderBlock"
  /\ fnOutput.rendered
  /\ ~fnOutput.pinned
  /\ LaidOutBlock.hasPosition
  /\ LaidOutBlock.x = 24
  /\ LaidOutBlock.y = 150
  /\ fnInput.viewport = Viewport(430, 932)
  /\ fnOutput.needsMigration
  /\ REq(fnOutput.top, Rat(184 * 932, 852))

\* C17: legacy migration applies to a screen exactly when it has at least one
\* positioned block and every positioned block has x <= 320 and y <= 693; one
\* positioned block beyond those bounds disables it for the whole screen; when
\* it applies each explicit position becomes
\* (round(x*393/320), round(y*852/693)) before device scaling.
C17_MigrationRule ==
  fnOutput.fn = "renderBlock"
  => /\ fnOutput.needsMigration <=> LegacyRuleApplies
     /\ ( \E i \in 1..Len(fnInput.blocks) :
            /\ fnInput.blocks[i].hasPosition
            /\ fnInput.blocks[i].x > 320 \/ fnInput.blocks[i].y > 693 )
          => ~fnOutput.needsMigration
     /\ ( fnOutput.rendered /\ LaidOutBlock.hasPosition )
          => IF fnOutput.needsMigration
             THEN /\ fnOutput.pos.x.d = 1 /\ fnOutput.pos.y.d = 1
                  /\ IsRounded(fnOutput.pos.x.n, LaidOutBlock.x, 393, 320)
                  /\ IsRounded(fnOutput.pos.y.n, LaidOutBlock.y, 852, 693)
                  /\ ( LaidOutBlock.x = 320 /\ LaidOutBlock.y = 693 )
                       => fnOutput.pos = Point(RInt(393), RInt(852))
                  /\ ( LaidOutBlock.x = 24 /\ LaidOutBlock.y = 150 )
                       => fnOutput.pos = Point(RInt(29), RInt(184))
             ELSE fnOutput.pos = Point(RInt(LaidOutBlock.x), RInt(LaidOutBlock.y))

C17_Witness ==
  /\ fnOutput.fn = "renderBlock"
  /\ Len(fnInput.blocks) = 2
  /\ fnInput.id = 1
  /\ LaidOutBlock.hasPosition /\ LaidOutBlock.x = 320 /\ LaidOutBlock.y = 693
  /\ fnInput.blocks[2].hasPosition /\ fnInput.blocks[2].x = 321
  /\ ~fnOutput.needsMigration
  /\ fnOutput.pos = Point(RInt(320), RInt(693))

\* C18 (as claimed): a block without an explicit position is never migrated:
\* on every screen its logical position is the default one (icons at
\* 393/2 - 40, others at 24, top 150 + 70 * index) on the 393x852 canvas.
C18_DefaultPositionNotMigrated ==
  ( /\ fnOutput.fn = "renderBlock"
    /\ fnOutput.rendered
    /\ ~fnOutput.pinned
    /\ ~LaidOutBlock.hasPosition )
  => /\ REq(fnOutput.pos.x,
            IF LaidOutBlock.type = "icon" THEN Rat(393 - 80, 2) ELSE RInt(24))
     /\ REq(fnOutput.pos.y, RInt(150 + 70 * fnOutput.index))
     /\ ScaledFrom(Point(IF LaidOutBlock.type = "icon" THEN Rat(393 - 80, 2) ELSE RInt(24),
                         RInt(150 + 70 * fnOutput.index)))

\* C19 (as claimed): a button whose fullWidth is not false gets the max width
\* (393-48)*uniformScale, a button whose fullWidth is false gets
\* 280*uniformScale.
C19_ButtonWidthByFlag ==
  ( fnOutput.fn = "renderBlock" /\ LaidOutBlock.type = "button" )
  => IF LaidOutBlock.fullWidth # "false"
     THEN REq(fnOutput.maxWidth, Rat((393 - 48) * fnInput.viewport.w, 393))
     ELSE REq(fnOutput.maxWidth, Rat(280 * fnInput.viewport.w, 393))

\* C19 (amended): a button gets the content-width max width 280*uniformScale
\* whether its fullWidth is true, false or absent, unless it has an explicit
\* non-zero numeric styling.width, which gives styling.width*uniformScale; it
\* never gets (393-48)*uniformScale on account of fullWidth.
C19_ButtonContentWidth ==
  ( fnOutput.fn = "renderBlock" /\ LaidOutBlock.type = "button" )
  => IF LaidOutBlock.widthKind = "number" /\ LaidOutBlock.width # 0
     THEN REq(fnOutput.maxWidth, Rat(LaidOutBlock.width * fnInput.viewport.w, 393))
     ELSE REq(fnOutput.maxWidth, Rat(280 * fnInput.viewport.w, 393))

C19_Witness ==
  /\ fnOutput.fn = "renderBlock"
  /\ LaidOutBlock.type = "button"
  /\ LaidOutBlock.fullWidth = "true"
  /\ fnInput.viewport = Viewport(786, 1704)
  /\ REq(fnOutput.maxWidth, RInt(560))

\* C20 (as claimed): for a block of any type, the full-width types included,
\* an explicit numeric styling.width makes the max width
\* styling.width * uniformScale.
C20_WidthOverrideAnyType ==
  ( fnOutput.fn = "renderBlock" /\ LaidOutBlock.widthKind = "number" )
  => REq(fnOutput.maxWidth, Rat(LaidOutBlock.width * fnInput.viewport.w, 393))

\* the largest index of the range that is kept and not above i, or -1
PrecedingKept(cfg, i) ==
  LET kept == { k \in cfg.startScreen..i : k \notin cfg.skipScreens }
  IN IF kept = {} THEN -1 ELSE CHOOSE k \in kept : \A j \in kept : j <= k

\* C21 (as claimed): as currentIndex increases from startScreen to endScreen
\* the progress fraction never decreases, and on a skipped index it is the
\* fraction of the largest preceding non-skipped index.
C21_ProgressMonotone ==
  [][ ( fnOutput.fn = "progress" /\ fnOutput'.fn = "progress" )
      => /\ RLe(fnOutput.value, fnOutput'.value)
         /\ ( /\ fnInput'.currentIndex \in fnInput'.config.skipScreens
              /\ PrecedingKept(fnInput'.config, fnInput'.currentIndex) >= 0 )
              => REq(fnOutput'.value, fnOutput.value) ]_vars

\* the checklist blocks of a screen that carry a minSelections constraint
ConstrainedChecklists(screen) ==
  IF ~screen.hasBlocks THEN {}
  ELSE { j \in 1..Len(screen.blocks) :
           /\ screen.blocks[j].type = "checklist"
           /\ screen.blocks[j].minSelections > 0
           /\ screen.blocks[j].fieldName # "" }

\* array length, 1 for any scalar that is present, 0 for an absent value
CountAnyScalar(v) ==
  IF v.kind = "array" THEN Len(v.arr) ELSE IF v.kind = "undefined" THEN 0 ELSE 1

\* array length, 1 for a non-empty string or a non-zero number, 0 otherwise
CountTruthyScalar(v) ==
  IF v.kind = "array" THEN Len(v.arr)
  ELSE IF v.kind = "string" /\ v.str # <<>> THEN 1
  ELSE IF v.kind = "number" /\ v.num # 0 THEN 1
  ELSE 0

\* a validated action on the interests screen of FlowA with the given selection
NextOnInterests(selection) ==
  /\ lastAction'.type = "next"
  /\ screens = FlowA
  /\ currentScreen.id = "interests"
  /\ collectedData["interests"] = Arr(selection)

\* C22 (as claimed): a checklist with minSelections > 0 fails validation
\* exactly when its selection count is below minSelections, the count being
\* the array length, 1 for any bare scalar and 0 for an absent value; with
\* minSelections = 2 a next after ["sports"] is blocked and a next after
\* ["sports","music"] navigates.
C22_ChecklistCountAnyScalar ==
  [][ /\ lastAction'.type \in {"next", "complete", "screen"}
         => \A j \in ConstrainedChecklists(currentScreen) :
              currentScreen.blocks[j].fieldName \in validationErrors'
                <=> CountAnyScalar(collectedData[currentScreen.blocks[j].fieldName])
                      < currentScreen.blocks[j].minSelections
      /\ NextOnInterests(<<"sports">>)
           => currentIndex' = currentIndex /\ "interests" \in validationErrors'
      /\ NextOnInterests(<<"sports", "music">>)
           => currentIndex' = currentIndex + 1 /\ validationErrors' = {}
    ]_vars

\* C22 (amended): the count is the array length for an array value, 1 for a
\* truthy bare scalar (non-empty string, non-zero number) and 0 for an absent
\* value or a falsy scalar (empty string, 0); the rest as claimed.
C22_ChecklistCountTruthyScalar ==
  [][ /\ lastAction'.type \in {"next", "complete", "screen"}
         => \A j \in ConstrainedChecklists(currentScreen) :
              currentScreen.blocks[j].fieldName \in validationErrors'
                <=> CountTruthyScalar(collectedData[currentScreen.blocks[j].fieldName])
                      < currentScreen.blocks[j].minSelections
      /\ NextOnInterests(<<"sports">>)
           => currentIndex' = currentIndex /\ "interests" \in validationErrors'
      /\ NextOnInterests(<<"sports", "music">>)
           => currentIndex' = currentIndex + 1 /\ validationErrors' = {}
    ]_vars

C22_Witness ==
  /\ lastAction.type = "next"
  /\ screens = FlowB
  /\ currentIndex = 2
  /\ collectedData["interests"] = Num(0)
  /\ collectedData["email"] = Str(EmailText)
  /\ validationErrors = {"interests"}

\* C23 (as claimed): when no provider operation is under way,
\* useShouldShowOnboarding() is true exactly when the client's completion flag
\* is false and the loaded config has at least one screen; it is false once
\* completion has been recorded.
C23_ShouldShowMatchesClient ==
  awaiting = {}
  => /\ useShouldShowOnboarding
          <=> ( /\ ~client.isOnboardingCompleted
                /\ provider.hasConfig
                /\ provider.screens > 0 )
     /\ client.isOnboardingCompleted => ~useShouldShowOnboarding

\* number of places of a queue that hold event e
RECURSIVE CountInQueue(_, _)
CountInQueue(queue, e) ==
  IF queue = <<>> THEN 0
  ELSE (IF Head(queue) = e THEN 1 ELSE 0) + CountInQueue(Tail(queue), e)

\* number of places of the batches in flight that hold event e
RECURSIVE CountInFlight(_, _)
CountInFlight(batches, e) ==
  IF batches = <<>> THEN 0
  ELSE CountInQueue(Head(batches).events, e) + CountInFlight(Tail(batches), e)

\* C27: every event tracked while configured is in exactly one of the pending
\* queue, a batch in flight, or a batch the server accepted: it is never
\* dropped and never in two accepted batches.
C27_EventInExactlyOnePlace ==
  \A e \in 1..Len(accepted) :
    CountInQueue(client.pendingEvents, e) + CountInFlight(inFlight, e) + accepted[e] = 1

C27_Witness ==
  /\ lastAction.type = "flushOk"
  /\ Len(accepted) > BATCH_SIZE
  /\ client.flushFailures > 0
  /\ client.timerFlushes > 0
  /\ \E e \in 1..Len(accepted) : accepted[e] = 1
  /\ \E e \in 1..Len(accepted) : CountInQueue(client.pendingEvents, e) = 1

\* C28 (as claimed): a configure() that reloads the persisted pending events
\* puts no event back in the pending queue that a flush has delivered.
C28_DeliveredNotReloaded ==
  [][ lastAction'.type = "configured"
      => \A e \in EventsOf(client'.pendingEvents) : accepted[e] = 0 ]_vars

\* the transitions animating at least one of the shared values
TransitionsAnimating == { animRunning[v] : v \in AnimatedValues } \ {0}

\* C24: at most one transition is animating at any time, also when a
\* navigation is requested while a transition is animating.
C24_OneTransitionAnimating == Cardinality(TransitionsAnimating) <= 1

C24_Witness ==
  /\ lastAction.type = "animateTransition"
  /\ lastAction.value.num > 0
  /\ animStarted >= 2
  /\ TransitionsAnimating = {animStarted}

\* C25: a successful navigation commits currentIndex to the target in the
\* step that hands the animation over, without starting it; the animation
\* starts in a later step that leaves currentIndex alone, and its kind and
\* direction are those of the edge from the index before the commit.
C25_CommitBeforeAnimation ==
  [][ /\ ( /\ lastAction'.type = "navigateTo"
           /\ InRange(lastAction'.value.num) )
         => /\ currentIndex' = lastAction'.value.num
            /\ animValues' = animValues
            /\ animRunning' = animRunning
            /\ animStarted' = animStarted
            /\ animTasks' = Append(animTasks,
                 AnimTask(getTransition(AnimFlow, AnimOverrides, currentIndex,
                                        lastAction'.value.num),
                          lastAction'.value.num > currentIndex,
                          lastAction'.value.num))
      /\ lastAction'.type = "animateTransition"
         => /\ currentIndex' = currentIndex
            /\ animStarted' = animStarted + 1
            /\ Len(animTasks) = 1 => currentIndex = animTasks[1].target
    ]_vars

C25_Witness ==
  /\ lastAction.type = "animateTransition"
  /\ lastAction.arg = "fade-slide-right"
  /\ currentIndex = 0
  /\ animValues.slide = "W"
  /\ animRunning.slide = animStarted

\* C29: whenever no animation is running on the shared values, they are at
\* rest: opacity 1, horizontal offset 0, vertical offset 0, scale 1.
C29_RestWhenIdle ==
  TransitionsAnimating = {} => animValues = AtRest

C29_Witness ==
  /\ lastAction.type = "animationEnd"
  /\ animStarted = MaxNavigations
  /\ animTasks = <<>>
  /\ TransitionsAnimating = {}
  /\ animValues = AtRest

\* C26 (as claimed): when the auto-advance timeout of a single-select
\* checklist fires, the action sees the selection just made: a minSelections
\* constraint that the selection meets does not fail, the action is carried
\* out, and an onComplete it triggers receives the new selection.
C26_AutoAdvanceSeesSelection ==
  [][ ( /\ lastAction'.type = "autoAdvance"
        /\ currentIndex = 0
        /\ collectedData[ChecklistField] = lastAction'.value
        /\ ValidatePasses(currentScreen, collectedData) )
      => /\ ChecklistField \notin validationErrors'
         /\ currentIndex' # currentIndex \/ "onComplete" \in SigsOf(emitted')
         /\ \A i \in 1..Len(emitted') :
              emitted'[i].sig = "onComplete"
                => emitted'[i].data[ChecklistField] = lastAction'.value
    ]_vars

\* the selection shown by the checklist
Selection == SelectedItemsOf(collectedData)

NoItemTwice(seq) == \A i, j \in 1..Len(seq) : seq[i] = seq[j] => i = j

\* C30 (as claimed): in multi-select mode the selection never has more than
\* maxSelections items, never holds an item twice, and a press on a selected
\* item never takes it below minSelections (default 1); in single-select mode
\* it has at most one item.
C30_SelectionWithinLimits ==
  [][ checklist.present
      => /\ ( checklist.allowMultiple /\ checklist.hasMaxSelections )
              => Len(Selection') <= checklist.maxSelections
         /\ NoItemTwice(Selection')
         /\ ( /\ checklist.allowMultiple
              /\ lastAction'.type = "pressed"
              /\ Len(Selection') < Len(Selection) )
              => Len(Selection') >= MinSelectionsOf(checklist)
         /\ ~checklist.allowMultiple => Len(Selection') <= 1
    ]_vars

====
